---- MODULE Spec2Model ----
(***************************************************************************)
(* Model of the bias-detection core of TrialEquity                         *)
(* (backend/ml_bias_detection_production.py, class MLBiasDetector) and of  *)
(* the places of backend/main.py that drive it.                            *)
(*                                                                         *)
(* Numbers.  Real values are exact rationals <<n, d>> with d > 0, reduced. *)
(* Fractions inside a TrialMetadata are integers in per-mille              *)
(* (0.25 is 250, the percentage 25.0 is 25000); ages are whole years.      *)
(* The fitted sklearn / xgboost objects are opaque: what they return for a *)
(* scaled feature vector is chosen freely on the first query and is fixed  *)
(* for that vector afterwards (a deterministic but unknown function).      *)
(* IsolationForest.predict is -1 exactly when decision_function < 0, so    *)
(* is_outlier is derived from outlier_score.                               *)
(***************************************************************************)
EXTENDS Integers, Sequences, FiniteSets, TLC

VARIABLES
    det,        \* the MLBiasDetector instance (its attributes)
    disk,       \* the model directory: file name -> content
    runs,       \* number of _train_models runs so far
    saved,      \* attributes written by the latest _save_models
    req,        \* metadata of the detect_bias call in flight
    call,       \* outcome of the latest detect_bias call
    chisquare_checks_sums, \* scipy.stats.chisquare rejects unequal sums
    pre,        \* outcome of the latest preprocess_trial_data call
    upload,     \* uploaded bytes waiting for preprocess_trial_data
    calc,       \* inputs and results of the latest pure-function application
    boot,       \* what the latest __init__ reported: "loaded" or "trained"
    ml_detector, \* the global of main.py: 0 for None, or the place of a detector in heap
    heap,       \* the detector objects constructed so far, in order
    handlers,   \* the scoring requests: where each stands and what it holds
    trial,      \* the Trial document of the database
    response    \* the latest answer of an endpoint of main.py

vars == <<det, disk, runs, saved, req, call, chisquare_checks_sums, pre, upload, calc, boot, ml_detector, heap, handlers, trial, response>>

None == "None"
NaN == -1

(***************************************************************************)
(* Exact rational arithmetic                                               *)
(* Only({e(x) : x \in {v}}) evaluates v once and names its value x, as an  *)
(* assignment to a local variable does.                                    *)
(***************************************************************************)
Only(S) == CHOOSE x \in S : TRUE

Abs(x) == IF x < 0 THEN -x ELSE x

RECURSIVE GCD(_, _)
GCD(a, b) == IF b = 0 THEN a ELSE GCD(b, a % b)

Reduce(n, d, g) ==
    IF n = 0 THEN <<0, 1>>
    ELSE IF d < 0 THEN <<(-n) \div g, (-d) \div g>>
    ELSE <<n \div g, d \div g>>

Rat(n, d) == Only({Reduce(a, b, GCD(Abs(a), Abs(b))) : a \in {n}, b \in {d}})

R(n) == <<n, 1>>
PerMille(n) == Rat(n, 1000)

RAdd(a, b) ==
    Only({Rat(x[1] * (y[2] \div GCD(x[2], y[2])) + y[1] * (x[2] \div GCD(x[2], y[2])),
              (x[2] \div GCD(x[2], y[2])) * y[2]) : x \in {a}, y \in {b}})
RNeg(a) == Only({<<-x[1], x[2]>> : x \in {a}})
RSub(a, b) == RAdd(a, RNeg(b))
RMul(a, b) ==
    Only({Only({Rat(p[1] * q[1], p[2] * q[2]) : p \in {Rat(x[1], y[2])}, q \in {Rat(y[1], x[2])}}) :
             x \in {a}, y \in {b}})
RDiv(a, b) == Only({RMul(a, Rat(y[2], y[1])) : y \in {b}})
RLt(a, b) ==
    \E x \in {a}, y \in {b} :
        x[1] * (y[2] \div GCD(x[2], y[2])) < y[1] * (x[2] \div GCD(x[2], y[2]))
RLe(a, b) == ~RLt(b, a)
RGe(a, b) == ~RLt(a, b)
RGt(a, b) == RLt(b, a)
RMin(a, b) == Only({IF RLt(y, x) THEN y ELSE x : x \in {a}, y \in {b}})
RMax(a, b) == Only({IF RLt(x, y) THEN y ELSE x : x \in {a}, y \in {b}})
RAbs(a) == Only({<<Abs(x[1]), x[2]>> : x \in {a}})

RECURSIVE RSum(_)
RSum(s) == Only({IF v = <<>> THEN R(0) ELSE RAdd(Head(v), RSum(Tail(v))) : v \in {s}})

RECURSIVE RMinSeq(_)
RMinSeq(s) == Only({IF Len(v) = 1 THEN v[1] ELSE RMin(Head(v), RMinSeq(Tail(v))) : v \in {s}})

RECURSIVE RMaxSeq(_)
RMaxSeq(s) == Only({IF Len(v) = 1 THEN v[1] ELSE RMax(Head(v), RMaxSeq(Tail(v))) : v \in {s}})

(* dict.get(key, default) *)
Get(d, k, default) == IF k \in DOMAIN d THEN d[k] ELSE default

(* dict.values() of an ethnicity mapping, in the insertion order of the keys *)
EthKeys == <<"white", "black", "asian", "hispanic", "other">>

RECURSIVE ValuesFrom(_, _)
ValuesFrom(d, i) ==
    IF i > Len(EthKeys) THEN <<>>
    ELSE IF EthKeys[i] \in DOMAIN d
         THEN <<PerMille(d[EthKeys[i]])>> \o ValuesFrom(d, i + 1)
         ELSE ValuesFrom(d, i + 1)

Values(d) == Only({ValuesFrom(v, 1) : v \in {d}})

RECURSIVE Filter(_, _)
Filter(s, eps) ==
    Only({IF v = <<>> THEN <<>>
          ELSE IF RGt(Head(v), eps) THEN <<Head(v)>> \o Filter(Tail(v), eps)
          ELSE Filter(Tail(v), eps) : v \in {s}})

(***************************************************************************)
(* scipy.stats.chisquare(f_obs, f_exp)                                     *)
(* The statistic is computed exactly.  The p-value chi2.sf(x, df) is read  *)
(* from the critical-value table below and rounded down to the next table  *)
(* level, which is exact on every comparison the program makes with it     *)
(* (min(p, 0.5), p < 0.05).  df = 0 gives the p-value nan.                 *)
(***************************************************************************)
NaNR == <<0, 0>>
IsNaN(p) == p[2] = 0

PLevels == <<900, 800, 700, 600, 500, 400, 300, 200, 100, 50, 10, 1>>

Chi2Critical(df) ==
    CASE df = 1 -> <<157, 641, 1484, 2749, 4549, 7083, 10741, 16423, 27055, 38414, 66348, 108275>>
      [] df = 2 -> <<2107, 4462, 7133, 10216, 13862, 18325, 24079, 32188, 46051, 59914, 92103, 138155>>
      [] df = 3 -> <<5843, 10051, 14236, 18691, 23659, 29461, 36648, 46416, 62513, 78147, 113448, 162662>>
      [] df = 4 -> <<10636, 16487, 21946, 27528, 33566, 40446, 48784, 59886, 77794, 94877, 132767, 184668>>

Chi2SF(x, df) ==
    IF df = 0 THEN NaNR
    ELSE IF RLe(x, R(0)) THEN R(1)
    ELSE Only({IF hit = {} THEN R(0)
               ELSE PerMille(PLevels[CHOOSE i \in hit : \A j \in hit : i <= j]) :
                  hit \in {{i \in 1..Len(PLevels) : RLe(x, Rat(Chi2Critical(df)[i], 10000))}}})

RECURSIVE Chi2Stat(_, _)
Chi2Stat(obs, exp) ==
    Only({IF o = <<>> THEN R(0)
          ELSE Only({RAdd(RDiv(RMul(diff, diff), Head(e)), Chi2Stat(Tail(o), Tail(e))) :
                        diff \in {RSub(Head(o), Head(e))}}) :
             o \in {obs}, e \in {exp}})

chisquare(obs, exp, strict) ==
    Only({IF strict /\ RSum(o) # RSum(e)
          THEN [raised |-> TRUE, chi2 |-> R(0), p |-> R(0)]
          ELSE Only({[raised |-> FALSE, chi2 |-> x, p |-> Chi2SF(x, Len(o) - 1)] :
                        x \in {Chi2Stat(o, e)}}) :
             o \in {obs}, e \in {exp}})

(***************************************************************************)
(* MLBiasDetector._calculate_fairness_metrics                              *)
(***************************************************************************)
EmptyDict == [k \in {} |-> 0]

DisparateImpact(ethnicity_dist) ==
    Only({IF Len(ethnicity_values) >= 2
          THEN Only({IF RGt(max_ethnicity, R(0)) THEN RDiv(min_ethnicity, max_ethnicity) ELSE R(0) :
                        max_ethnicity \in {RMaxSeq(ethnicity_values)},
                        min_ethnicity \in {RMinSeq(ethnicity_values)}})
          ELSE IF Len(ethnicity_values) = 1 THEN R(0)
          ELSE Rat(7, 10) :
             ethnicity_values \in {Filter(Values(ethnicity_dist), PerMille(1))}})

(* mutant: full age credit needs a 100-year span instead of a 50-year span *)
FairnessMetricsAge100(trial_metadata) ==
    LET gender_dist == Get(trial_metadata, "gender_distribution", EmptyDict)
        ethnicity_dist == Get(trial_metadata, "ethnicity_distribution", EmptyDict)
        gender_male == PerMille(Get(gender_dist, "male", 500))
        gender_female == PerMille(Get(gender_dist, "female", 500))
        age_dist == Get(trial_metadata, "age_distribution", EmptyDict)
        age_min == Get(age_dist, "min", 18)
        age_max == Get(age_dist, "max", 80)
        age_range == IF age_max - age_min > 0 THEN age_max - age_min ELSE 0
    IN  [demographic_parity |-> RSub(R(1), RAbs(RSub(gender_male, gender_female))),
         disparate_impact_ratio |-> DisparateImpact(ethnicity_dist),
         equality_of_opportunity |->
             IF age_range > 0 THEN RMin(Rat(age_range, 100), R(1)) ELSE R(0)]

_calculate_fairness_metrics(trial_metadata) ==
    LET gender_dist == Get(trial_metadata, "gender_distribution", EmptyDict)
        ethnicity_dist == Get(trial_metadata, "ethnicity_distribution", EmptyDict)
        gender_male == PerMille(Get(gender_dist, "male", 500))
        gender_female == PerMille(Get(gender_dist, "female", 500))
        gender_parity == RSub(R(1), RAbs(RSub(gender_male, gender_female)))
        age_dist == Get(trial_metadata, "age_distribution", EmptyDict)
        age_min == Get(age_dist, "min", 18)
        age_max == Get(age_dist, "max", 80)
        age_range == IF age_max - age_min > 0 THEN age_max - age_min ELSE 0
        age_coverage == IF age_range > 0 THEN RMin(Rat(age_range, 50), R(1)) ELSE R(0)
    IN  [demographic_parity |-> gender_parity,
         disparate_impact_ratio |-> DisparateImpact(ethnicity_dist),
         equality_of_opportunity |-> age_coverage]

(***************************************************************************)
(* MLBiasDetector._run_statistical_tests                                   *)
(***************************************************************************)
(* mutant: expected counts sample_size / k without a floor; the division by *)
(* an expected count of zero fails                                          *)
RunStatisticalTestsOnCounts(trial_metadata, strict) ==
    LET gender_dist == Get(trial_metadata, "gender_distribution", EmptyDict)
        ethnicity_dist == Get(trial_metadata, "ethnicity_distribution", EmptyDict)
        observed_gender == <<PerMille(Get(gender_dist, "male", 500)),
                             PerMille(Get(gender_dist, "female", 500))>>
        expected_gender == <<Rat(1, 2), Rat(1, 2)>>
        Expected(n) == [i \in 1..n |-> Rat(1, n)]
    IN  Only({Only({[raised |-> g.raised \/ e.raised \/ Get(trial_metadata, "sample_size", 100) = 0,
                     chi2_gender |-> g.chi2, p_value_gender |-> g.p,
                     chi2_ethnicity |-> e.chi2, p_value_ethnicity |-> e.p] :
                       e \in {IF Len(ethnicity_values) > 0
                              THEN chisquare(ethnicity_values, Expected(Len(ethnicity_values)), strict)
                              ELSE [raised |-> FALSE, chi2 |-> R(0), p |-> R(1)]}}) :
                 g \in {chisquare(observed_gender, expected_gender, strict)},
                 ethnicity_values \in {Values(ethnicity_dist)}})

_run_statistical_tests(trial_metadata, strict) ==
    LET gender_dist == Get(trial_metadata, "gender_distribution", EmptyDict)
        ethnicity_dist == Get(trial_metadata, "ethnicity_distribution", EmptyDict)
        observed_gender == <<PerMille(Get(gender_dist, "male", 500)),
                             PerMille(Get(gender_dist, "female", 500))>>
        expected_gender == <<Rat(1, 2), Rat(1, 2)>>
        Expected(n) == [i \in 1..n |-> Rat(1, n)]
    IN  Only({Only({[raised |-> g.raised \/ e.raised,
                     chi2_gender |-> g.chi2, p_value_gender |-> g.p,
                     chi2_ethnicity |-> e.chi2, p_value_ethnicity |-> e.p] :
                       e \in {IF Len(ethnicity_values) > 0
                              THEN chisquare(ethnicity_values, Expected(Len(ethnicity_values)), strict)
                              ELSE [raised |-> FALSE, chi2 |-> R(0), p |-> R(1)]}}) :
                 g \in {chisquare(observed_gender, expected_gender, strict)},
                 ethnicity_values \in {Values(ethnicity_dist)}})

(***************************************************************************)
(* MLBiasDetector._calculate_overall_fairness_score                        *)
(***************************************************************************)
Weights ==
    [demographic_parity |-> Rat(25, 100), disparate_impact |-> Rat(25, 100),
     equality_of_opportunity |-> Rat(20, 100), statistical_tests |-> Rat(15, 100),
     outlier |-> Rat(10, 100), bias_probability |-> Rat(5, 100)]

Clamp01(score) == RMax(R(0), RMin(R(1), score))

(* mutant: the parity term rewards imbalance, 1 - demographic_parity *)
FairnessScoreInvertedParity(fairness_metrics, statistical_tests, outlier_score, bias_probability) ==
    Clamp01(RSum(<<
        RMul(Weights.demographic_parity, RSub(R(1), fairness_metrics.demographic_parity)),
        RMul(Weights.disparate_impact, fairness_metrics.disparate_impact_ratio),
        RMul(Weights.equality_of_opportunity, fairness_metrics.equality_of_opportunity),
        RMul(Weights.statistical_tests,
             RSub(R(1), RMin(statistical_tests.p_value_gender, Rat(1, 2)))),
        RMul(Weights.outlier, IF outlier_score > -100 THEN R(1) ELSE Rat(1, 2)),
        RMul(Weights.bias_probability, RSub(R(1), PerMille(bias_probability)))>>))

(* mutant: the weighted sum is returned without the final clamp *)
FairnessScoreUnclamped(fairness_metrics, statistical_tests, outlier_score, bias_probability) ==
    RSum(<<
        RMul(Weights.demographic_parity, fairness_metrics.demographic_parity),
        RMul(Weights.disparate_impact, fairness_metrics.disparate_impact_ratio),
        RMul(Weights.equality_of_opportunity, fairness_metrics.equality_of_opportunity),
        RMul(Weights.statistical_tests,
             RSub(R(1), RMin(statistical_tests.p_value_gender, Rat(1, 2)))),
        RMul(Weights.outlier, IF outlier_score > -100 THEN R(1) ELSE Rat(1, 2)),
        RMul(Weights.bias_probability, RSub(R(1), PerMille(bias_probability)))>>)

(* the outlier term of the score: 1.0 if outlier_score > -0.1 else 0.5 *)
OutlierTerm(outlier_score) == IF outlier_score > -100 THEN R(1) ELSE Rat(1, 2)

(* the statistical_tests term of the score: 1.0 - min(p_value_gender, 0.5) *)
StatisticalTerm(p_value_gender) == RSub(R(1), RMin(p_value_gender, Rat(1, 2)))

_calculate_overall_fairness_score(fairness_metrics, statistical_tests, outlier_score, bias_probability) ==
    LET demographic_parity == fairness_metrics.demographic_parity
        disparate_impact == fairness_metrics.disparate_impact_ratio
        equality_opportunity == fairness_metrics.equality_of_opportunity
        p_value_gender == statistical_tests.p_value_gender
        score == RSum(<<
            RMul(Weights.demographic_parity, demographic_parity),
            RMul(Weights.disparate_impact, disparate_impact),
            RMul(Weights.equality_of_opportunity, equality_opportunity),
            RMul(Weights.statistical_tests, StatisticalTerm(p_value_gender)),
            RMul(Weights.outlier, OutlierTerm(outlier_score)),
            RMul(Weights.bias_probability, RSub(R(1), PerMille(bias_probability)))>>)
    IN  Clamp01(score)

(***************************************************************************)
(* MLBiasDetector._extract_features                                        *)
(* eligibility_variance is np.random.uniform(0.01, 0.1): the draw is the   *)
(* parameter eligibility_variance (per-mille).  log1p is tabulated for the *)
(* sample sizes of the model, in units of 1/100000.                        *)
(***************************************************************************)
Log1pOver10(n) ==
    CASE n = 0 -> Rat(0, 1)
      [] n = 20 -> Rat(30445, 100000)
      [] n = 100 -> Rat(46151, 100000)
      [] n = 150 -> Rat(50173, 100000)
      [] n = 300 -> Rat(57071, 100000)
      [] n = 499 -> Rat(62146, 100000)

_extract_features(trial_metadata, eligibility_variance) ==
    LET age_dist == Get(trial_metadata, "age_distribution", EmptyDict)
        gender_dist == Get(trial_metadata, "gender_distribution", EmptyDict)
        ethnicity_dist == Get(trial_metadata, "ethnicity_distribution", EmptyDict)
        age_mean == Get(age_dist, "mean", 50)
        age_std == Get(age_dist, "std", 10)
        age_min == Get(age_dist, "min", 18)
        age_max == Get(age_dist, "max", 80)
        age_range == age_max - age_min
        age_skewness == IF age_std > 0
                        THEN RDiv(RSub(R(age_mean), Rat(age_min + age_max, 2)), R(age_std))
                        ELSE R(0)
        gender_male == PerMille(Get(gender_dist, "male", 500))
        gender_female == PerMille(Get(gender_dist, "female", 500))
        raw == <<Get(ethnicity_dist, "white", 250), Get(ethnicity_dist, "black", 250),
                 Get(ethnicity_dist, "asian", 250), Get(ethnicity_dist, "hispanic", 150),
                 Get(ethnicity_dist, "other", 100)>>
        Normalized(r, total_eth) ==
            [i \in 1..5 |-> IF total_eth > 0 THEN Rat(r[i], total_eth) ELSE PerMille(r[i])]
        sample_size == Get(trial_metadata, "sample_size", 100)
        sample_size_norm == Rat(sample_size, 1000)
        sample_size_log == Log1pOver10(sample_size)
        eligibility_score == PerMille(Get(trial_metadata, "eligibility_score", 800))
        equality_opportunity == RMin(Rat(age_range, 50), R(1))
        DisparateImpactOf(ethnicity_values) ==
            IF Len(ethnicity_values) >= 2
            THEN IF RGt(RMaxSeq(ethnicity_values), R(0))
                 THEN RDiv(RMinSeq(ethnicity_values), RMaxSeq(ethnicity_values))
                 ELSE R(0)
            ELSE R(0)
    IN  Only({Only({
            <<R(age_mean), R(age_std), R(age_range), age_skewness,
              gender_male, gender_female, gender_balance,
              eth[1], eth[2], eth[3], ethnicity_diversity,
              sample_size_norm, sample_size_log,
              eligibility_score, PerMille(eligibility_variance),
              gender_balance, disparate_impact, equality_opportunity>> :
                ethnicity_diversity \in
                    {IF RGt(RMaxSeq(eth), R(0)) THEN RSub(R(1), RMaxSeq(eth)) ELSE R(0)},
                disparate_impact \in {DisparateImpactOf(Filter(eth, R(0)))}}) :
          eth \in {Normalized(raw, raw[1] + raw[2] + raw[3] + raw[4] + raw[5])},
          gender_balance \in {RSub(R(1), RAbs(RSub(gender_male, gender_female)))}})

(***************************************************************************)
(* Decision logic of MLBiasDetector.detect_bias                            *)
(***************************************************************************)
(* mutant: the balanced tier accepts from 0.70 instead of 0.65 *)
DecideBalancedFrom70(fairness_score, fairness_metrics, is_outlier, bias_probability) ==
    LET bp == PerMille(bias_probability)
        is_demographically_balanced ==
            /\ RGe(fairness_metrics.demographic_parity, Rat(90, 100))
            /\ RGe(fairness_metrics.equality_of_opportunity, Rat(80, 100))
            /\ RGe(fairness_metrics.disparate_impact_ratio, Rat(25, 100))
            /\ ~is_outlier
            /\ RLt(bp, Rat(45, 100))
    IN  IF is_demographically_balanced
        THEN IF RGe(fairness_score, Rat(70, 100)) THEN "ACCEPT"
             ELSE IF RGe(fairness_score, Rat(60, 100))
                     /\ RGe(fairness_metrics.demographic_parity, Rat(92, 100))
                  THEN "ACCEPT"
             ELSE "REVIEW"
        ELSE IF RGe(fairness_score, Rat(85, 100)) /\ ~is_outlier /\ RLt(bp, Rat(25, 100))
             THEN "ACCEPT"
        ELSE IF RGe(fairness_score, Rat(75, 100)) /\ RLt(bp, Rat(35, 100)) THEN "ACCEPT"
        ELSE IF RGe(fairness_score, Rat(70, 100)) /\ RLt(bp, Rat(40, 100)) THEN "ACCEPT"
        ELSE IF RGe(fairness_score, Rat(65, 100)) /\ ~is_outlier THEN "ACCEPT"
        ELSE IF RGe(fairness_score, Rat(60, 100)) THEN "REVIEW"
        ELSE "REJECT"

(* mutant: the tier "fairness_score >= 0.70 and bias_probability < 0.40" is missing *)
DecideWithoutTier70(fairness_score, fairness_metrics, is_outlier, bias_probability) ==
    LET bp == PerMille(bias_probability)
        is_demographically_balanced ==
            /\ RGe(fairness_metrics.demographic_parity, Rat(90, 100))
            /\ RGe(fairness_metrics.equality_of_opportunity, Rat(80, 100))
            /\ RGe(fairness_metrics.disparate_impact_ratio, Rat(25, 100))
            /\ ~is_outlier
            /\ RLt(bp, Rat(45, 100))
    IN  IF is_demographically_balanced
        THEN IF RGe(fairness_score, Rat(65, 100)) THEN "ACCEPT"
             ELSE IF RGe(fairness_score, Rat(60, 100))
                     /\ RGe(fairness_metrics.demographic_parity, Rat(92, 100))
                  THEN "ACCEPT"
             ELSE "REVIEW"
        ELSE IF RGe(fairness_score, Rat(85, 100)) /\ ~is_outlier /\ RLt(bp, Rat(25, 100))
             THEN "ACCEPT"
        ELSE IF RGe(fairness_score, Rat(75, 100)) /\ RLt(bp, Rat(35, 100)) THEN "ACCEPT"
        ELSE IF RGe(fairness_score, Rat(65, 100)) /\ ~is_outlier THEN "ACCEPT"
        ELSE IF RGe(fairness_score, Rat(60, 100)) THEN "REVIEW"
        ELSE "REJECT"

(* mutant: the tier "fairness_score >= 0.65 and not an outlier" is missing *)
DecideWithoutTier65(fairness_score, fairness_metrics, is_outlier, bias_probability) ==
    LET bp == PerMille(bias_probability)
        is_demographically_balanced ==
            /\ RGe(fairness_metrics.demographic_parity, Rat(90, 100))
            /\ RGe(fairness_metrics.equality_of_opportunity, Rat(80, 100))
            /\ RGe(fairness_metrics.disparate_impact_ratio, Rat(25, 100))
            /\ ~is_outlier
            /\ RLt(bp, Rat(45, 100))
    IN  IF is_demographically_balanced
        THEN IF RGe(fairness_score, Rat(65, 100)) THEN "ACCEPT"
             ELSE IF RGe(fairness_score, Rat(60, 100))
                     /\ RGe(fairness_metrics.demographic_parity, Rat(92, 100))
                  THEN "ACCEPT"
             ELSE "REVIEW"
        ELSE IF RGe(fairness_score, Rat(85, 100)) /\ ~is_outlier /\ RLt(bp, Rat(25, 100))
             THEN "ACCEPT"
        ELSE IF RGe(fairness_score, Rat(75, 100)) /\ RLt(bp, Rat(35, 100)) THEN "ACCEPT"
        ELSE IF RGe(fairness_score, Rat(70, 100)) /\ RLt(bp, Rat(40, 100)) THEN "ACCEPT"
        ELSE IF RGe(fairness_score, Rat(60, 100)) THEN "REVIEW"
        ELSE "REJECT"

(* mutant: the 0.65 tier accepts without looking at is_outlier *)
DecideOutlierBlind65(fairness_score, fairness_metrics, is_outlier, bias_probability) ==
    LET demographic_parity == fairness_metrics.demographic_parity
        disparate_impact == fairness_metrics.disparate_impact_ratio
        equality_opp == fairness_metrics.equality_of_opportunity
        bp == PerMille(bias_probability)
        excellent_gender_balance == RGe(demographic_parity, Rat(90, 100))
        good_age_range == RGe(equality_opp, Rat(80, 100))
        acceptable_ethnicity == RGe(disparate_impact, Rat(25, 100))
        is_demographically_balanced ==
            /\ excellent_gender_balance
            /\ good_age_range
            /\ acceptable_ethnicity
            /\ ~is_outlier
            /\ RLt(bp, Rat(45, 100))
    IN  IF is_demographically_balanced
        THEN IF RGe(fairness_score, Rat(65, 100)) THEN "ACCEPT"
             ELSE IF RGe(fairness_score, Rat(60, 100)) /\ RGe(demographic_parity, Rat(92, 100))
                  THEN "ACCEPT"
             ELSE IF RGe(fairness_score, Rat(55, 100)) THEN "REVIEW"
             ELSE "REVIEW"
        ELSE IF RGe(fairness_score, Rat(85, 100)) /\ ~is_outlier /\ RLt(bp, Rat(25, 100))
             THEN "ACCEPT"
        ELSE IF RGe(fairness_score, Rat(75, 100)) /\ RLt(bp, Rat(35, 100)) THEN "ACCEPT"
        ELSE IF RGe(fairness_score, Rat(70, 100)) /\ RLt(bp, Rat(40, 100)) THEN "ACCEPT"
        ELSE IF RGe(fairness_score, Rat(65, 100)) THEN "ACCEPT"
        ELSE IF RGe(fairness_score, Rat(60, 100)) THEN "REVIEW"
        ELSE "REJECT"

Decide(fairness_score, fairness_metrics, is_outlier, bias_probability) ==
    LET demographic_parity == fairness_metrics.demographic_parity
        disparate_impact == fairness_metrics.disparate_impact_ratio
        equality_opp == fairness_metrics.equality_of_opportunity
        bp == PerMille(bias_probability)
        excellent_gender_balance == RGe(demographic_parity, Rat(90, 100))
        good_age_range == RGe(equality_opp, Rat(80, 100))
        acceptable_ethnicity == RGe(disparate_impact, Rat(25, 100))
        is_demographically_balanced ==
            /\ excellent_gender_balance
            /\ good_age_range
            /\ acceptable_ethnicity
            /\ ~is_outlier
            /\ RLt(bp, Rat(45, 100))
    IN  IF is_demographically_balanced
        THEN IF RGe(fairness_score, Rat(65, 100)) THEN "ACCEPT"
             ELSE IF RGe(fairness_score, Rat(60, 100)) /\ RGe(demographic_parity, Rat(92, 100))
                  THEN "ACCEPT"
             ELSE IF RGe(fairness_score, Rat(55, 100)) THEN "REVIEW"
             ELSE "REVIEW"
        ELSE IF RGe(fairness_score, Rat(85, 100)) /\ ~is_outlier /\ RLt(bp, Rat(25, 100))
             THEN "ACCEPT"
        ELSE IF RGe(fairness_score, Rat(75, 100)) /\ RLt(bp, Rat(35, 100)) THEN "ACCEPT"
        ELSE IF RGe(fairness_score, Rat(70, 100)) /\ RLt(bp, Rat(40, 100)) THEN "ACCEPT"
        ELSE IF RGe(fairness_score, Rat(65, 100)) /\ ~is_outlier THEN "ACCEPT"
        ELSE IF RGe(fairness_score, Rat(60, 100)) THEN "REVIEW"
        ELSE "REJECT"

(***************************************************************************)
(* MLBiasDetector._generate_recommendations and _generate_rejection_summary*)
(* A message is modelled by the rule that appends it; the numbers that its *)
(* text formats are left out.                                              *)
(***************************************************************************)
PLt(p, t) == ~IsNaN(p) /\ RLt(p, t)

When(cond, msg) == IF cond THEN <<msg>> ELSE <<>>

_generate_recommendations(fairness_metrics, statistical_tests, is_outlier, bias_probability) ==
    LET recommendations ==
            When(RLt(fairness_metrics.demographic_parity, Rat(7, 10)), "Improve gender balance")
         \o When(RLt(fairness_metrics.disparate_impact_ratio, Rat(6, 10)), "Ensure better ethnic diversity")
         \o When(RLt(fairness_metrics.equality_of_opportunity, Rat(6, 10)), "Expand age range")
         \o When(PLt(statistical_tests.p_value_gender, Rat(5, 100)), "Gender distribution shows significant bias")
         \o When(is_outlier, "Unusual patterns - manual review")
         \o When(bias_probability > 500, "High probability of bias")
    IN  IF recommendations = <<>> THEN <<"Trial meets fairness criteria">> ELSE recommendations

(* mutant: the sample-size reason is given below 20 participants instead of 30 *)
RejectionSummaryBelow20(fairness_score, fairness_metrics, statistical_tests, is_outlier, bias_probability, trial_metadata) ==
    LET participant_count == Get(trial_metadata, "participant_count", 0)
        reasons ==
            When(RLt(fairness_score, Rat(70, 100)), "Low fairness score")
         \o When(is_outlier, "Unusual data patterns detected (outlier)")
         \o When(bias_probability >= 400, "High bias probability")
         \o When(RLt(fairness_metrics.demographic_parity, Rat(7, 10)), "Gender imbalance")
         \o When(RLt(fairness_metrics.disparate_impact_ratio, Rat(6, 10)), "Ethnicity imbalance")
         \o When(RLt(fairness_metrics.equality_of_opportunity, Rat(6, 10)), "Limited age range")
         \o When(PLt(statistical_tests.p_value_gender, Rat(5, 100)), "Gender statistical bias")
         \o When(PLt(statistical_tests.p_value_ethnicity, Rat(5, 100)), "Ethnicity statistical bias")
         \o When(participant_count < 20, "Insufficient sample size")
    IN  IF reasons # <<>> THEN reasons
        ELSE <<"Trial rejected due to low overall fairness score">>

_generate_rejection_summary(fairness_score, fairness_metrics, statistical_tests, is_outlier, bias_probability, trial_metadata) ==
    LET participant_count == Get(trial_metadata, "participant_count", 0)
        reasons ==
            When(RLt(fairness_score, Rat(70, 100)), "Low fairness score")
         \o When(is_outlier, "Unusual data patterns detected (outlier)")
         \o When(bias_probability >= 400, "High bias probability")
         \o When(RLt(fairness_metrics.demographic_parity, Rat(7, 10)), "Gender imbalance")
         \o When(RLt(fairness_metrics.disparate_impact_ratio, Rat(6, 10)), "Ethnicity imbalance")
         \o When(RLt(fairness_metrics.equality_of_opportunity, Rat(6, 10)), "Limited age range")
         \o When(PLt(statistical_tests.p_value_gender, Rat(5, 100)), "Gender statistical bias")
         \o When(PLt(statistical_tests.p_value_ethnicity, Rat(5, 100)), "Ethnicity statistical bias")
         \o When(participant_count < 30, "Insufficient sample size")
    IN  IF reasons # <<>> THEN reasons
        ELSE <<"Trial rejected due to low overall fairness score">>

(***************************************************************************)
(* The detector object and the fitted models                               *)
(***************************************************************************)
BuiltinFeatureNames ==
    <<"age_mean", "age_std", "age_range", "age_skewness",
      "gender_male", "gender_female", "gender_balance",
      "ethnicity_white", "ethnicity_black", "ethnicity_asian", "ethnicity_diversity",
      "sample_size_norm", "sample_size_log",
      "eligibility_score", "eligibility_variance",
      "demographic_parity", "disparate_impact", "equality_opportunity">>

(* A model object: where the object was made ("new" by __init__, or the run *)
(* that pickled it) and the training run that fitted it last (0: unfitted). *)
Model(origin, fit) == [origin |-> origin, fit |-> fit]

NoModel == Model("None", 0)

(* attribute values set by __init__ before it loads or trains *)
FreshDetector ==
    [is_trained |-> FALSE,
     ensemble_model |-> NoModel,
     isolation_forest |-> Model("new", 0),
     scaler |-> Model("new", 0),
     feature_names |-> BuiltinFeatureNames,
     model_accuracy |-> 0]

(* test-set accuracy measured by training run r, per mille *)
AccuracyOf(r) == 950 + r

(* _train_models: fits the scaler and isolation forest objects held by the  *)
(* detector, builds a new ensemble, stores the accuracy                     *)
_train_models(d, r) ==
    [d EXCEPT !.scaler = Model(d.scaler.origin, r),
              !.isolation_forest = Model(d.isolation_forest.origin, r),
              !.ensemble_model = Model("new", r),
              !.model_accuracy = AccuracyOf(r)]

(***************************************************************************)
(* The model directory: five files, each missing, unreadable, or holding   *)
(* what pickle.dump / json.dump wrote                                      *)
(***************************************************************************)
LoadOrder ==
    <<"ensemble_model.pkl", "isolation_forest.pkl", "scaler.pkl",
      "feature_names.json", "model_accuracy.json">>

FileNames == {LoadOrder[i] : i \in 1..Len(LoadOrder)}

Missing == [state |-> "missing"]
Corrupt == [state |-> "corrupt"]
Pickle(obj) == [state |-> "ok", format |-> "pickle", data |-> obj]
Json(value) == [state |-> "ok", format |-> "json", data |-> value]

NoDisk == [f \in FileNames |-> Missing]

(* _save_models: every file is rewritten from the detector's attributes *)
_save_models(d) ==
    [f \in FileNames |->
        CASE f = "ensemble_model.pkl" -> Pickle(d.ensemble_model)
          [] f = "isolation_forest.pkl" -> Pickle(d.isolation_forest)
          [] f = "scaler.pkl" -> Pickle(d.scaler)
          [] f = "feature_names.json" -> Json(d.feature_names)
          [] f = "model_accuracy.json" -> Json([accuracy |-> d.model_accuracy])]

(* mutant: the accuracy file is read but the attribute is not set *)
LoadIntoWithoutAccuracy(d, i, file) ==
    CASE i = 1 -> [d EXCEPT !.ensemble_model = file.data]
      [] i = 2 -> [d EXCEPT !.isolation_forest = file.data]
      [] i = 3 -> [d EXCEPT !.scaler = file.data]
      [] i = 4 -> [d EXCEPT !.feature_names = file.data]
      [] i = 5 -> d

(* the attribute assignment that follows the i-th read of _load_models *)
LoadInto(d, i, file) ==
    CASE i = 1 -> [d EXCEPT !.ensemble_model = file.data]
      [] i = 2 -> [d EXCEPT !.isolation_forest = file.data]
      [] i = 3 -> [d EXCEPT !.scaler = file.data]
      [] i = 4 -> [d EXCEPT !.feature_names = file.data]
      [] i = 5 -> [d EXCEPT !.model_accuracy = Get(file.data, "accuracy", 0)]

(* the reads of _load_models in order; a read that raises ends the load    *)
(* with the attributes assigned so far left in place                       *)
RECURSIVE LoadFrom(_, _, _)
LoadFrom(d, dk, i) ==
    IF i > Len(LoadOrder) THEN [ok |-> TRUE, det |-> d]
    ELSE IF dk[LoadOrder[i]].state # "ok" THEN [ok |-> FALSE, det |-> d]
    ELSE LoadFrom(LoadInto(d, i, dk[LoadOrder[i]]), dk, i + 1)

_load_models(d, dk) ==
    IF dk["ensemble_model.pkl"].state = "missing" THEN [ok |-> FALSE, det |-> d]
    ELSE LoadFrom(d, dk, 1)

(* outputs the fitted models can give for one scaled vector, per mille *)
OutlierScores == {-100, -50, 0}
BiasProbabilities == {0, 200, 210, 240, 250, 340, 350, 390, 400, 440, 450, 510, 1000}
EligibilityVarianceDraws == {10, 100}

(***************************************************************************)
(* MLBiasDetector.detect_bias                                              *)
(* outlier_score and bias_probability are what decision_function and       *)
(* predict_proba return for the scaled vector.                             *)
(***************************************************************************)
NoSummary == <<>>
NoCall == [status |-> "none"]

DefaultFairnessMetrics ==
    [demographic_parity |-> Rat(1, 2), disparate_impact_ratio |-> Rat(1, 2),
     equality_of_opportunity |-> Rat(1, 2)]

DefaultStatisticalTests ==
    [chi2_gender |-> R(0), p_value_gender |-> Rat(1, 2),
     chi2_ethnicity |-> R(0), p_value_ethnicity |-> Rat(1, 2)]

ModelKey(d, features) == <<d.scaler, d.isolation_forest, d.ensemble_model, features>>

Report(d, trial_metadata, features, outlier_score, bias_probability, fairness_metrics, statistical_tests, fairness_score, decision) ==
    [status |-> "ok",
     error |-> "",
     invoked |-> {"scaler", "isolation_forest", "ensemble_model"},
     meta |-> trial_metadata,
     features |-> features,
     key |-> ModelKey(d, features),
     result |->
        [decision |-> decision,
         fairness_score |-> fairness_score,
         model_accuracy |-> d.model_accuracy,
         metrics |-> [outlier_score |-> outlier_score,
                      is_outlier |-> outlier_score < 0,
                      bias_probability |-> bias_probability,
                      fairness_metrics |-> fairness_metrics,
                      statistical_tests |-> statistical_tests],
         recommendations |-> _generate_recommendations(
             fairness_metrics, statistical_tests, outlier_score < 0, bias_probability),
         rejection_summary |->
             IF decision = "REJECT"
             THEN _generate_rejection_summary(fairness_score, fairness_metrics,
                      statistical_tests, outlier_score < 0, bias_probability, trial_metadata)
             ELSE NoSummary]]

Raised(status, error, invoked, trial_metadata) ==
    [status |-> status, error |-> error, invoked |-> invoked, meta |-> trial_metadata]

(* the model calls in the order detect_bias makes them; a call on an       *)
(* absent or unfitted object raises, and the enclosing try turns that into *)
(* a ValueError                                                            *)
Fitted(m) == m # NoModel /\ m.fit > 0

(* mutant: the check of the classifier is missing *)
ReadyCheckWithoutEnsemble(d) ==
    IF ~d.is_trained THEN "Models not trained. Call _train_models() first."
    ELSE IF d.scaler = NoModel THEN "Scaler not initialized"
    ELSE ""

(* the three checks that open detect_bias: the message of the RuntimeError *)
(* raised, or "" when all pass                                             *)
ReadyCheck(d) ==
    IF ~d.is_trained THEN "Models not trained. Call _train_models() first."
    ELSE IF d.ensemble_model = NoModel THEN "Ensemble model not initialized"
    ELSE IF d.scaler = NoModel THEN "Scaler not initialized"
    ELSE ""

(* mutant: only a vector shorter than the name list is refused *)
FeatureCountAtLeast(features, d) == Len(features) >= Len(d.feature_names)

(* features.shape[1] against len(self.feature_names) *)
FeatureCountMatches(features, d) == Len(features) = Len(d.feature_names)

detect_bias(d, trial_metadata, eligibility_variance, outlier_score, bias_probability, strict) ==
    IF ReadyCheck(d) # ""
    THEN Raised("RuntimeError", ReadyCheck(d), {}, trial_metadata)
    ELSE
    Only({
        IF ~FeatureCountMatches(features, d)
        THEN [status |-> "ValueError", error |-> "Feature extraction failed: Feature mismatch",
              invoked |-> {}, meta |-> trial_metadata, features |-> features]
        ELSE IF ~Fitted(d.scaler)
        THEN Raised("ValueError", "Feature extraction failed", {"scaler"}, trial_metadata)
        ELSE IF ~Fitted(d.isolation_forest)
        THEN Raised("ValueError", "Model prediction failed",
                    {"scaler", "isolation_forest"}, trial_metadata)
        ELSE IF ~Fitted(d.ensemble_model)
        THEN Raised("ValueError", "Model prediction failed",
                    {"scaler", "isolation_forest", "ensemble_model"}, trial_metadata)
        ELSE
        Only({Only({Only({
            Report(d, trial_metadata, features, outlier_score, bias_probability,
                   fairness_metrics, statistical_tests, fairness_score, decision) :
              decision \in {Decide(fairness_score, fairness_metrics,
                                   outlier_score < 0, bias_probability)}}) :
              fairness_score \in {_calculate_overall_fairness_score(
                  fairness_metrics, statistical_tests, outlier_score, bias_probability)}}) :
              fairness_metrics \in {IF tests.raised THEN DefaultFairnessMetrics
                                    ELSE _calculate_fairness_metrics(trial_metadata)},
              statistical_tests \in
                  {IF tests.raised THEN DefaultStatisticalTests
                   ELSE [chi2_gender |-> tests.chi2_gender,
                         p_value_gender |-> tests.p_value_gender,
                         chi2_ethnicity |-> tests.chi2_ethnicity,
                         p_value_ethnicity |-> tests.p_value_ethnicity]}}) :
        features \in {_extract_features(trial_metadata, eligibility_variance)},
        tests \in {_run_statistical_tests(trial_metadata, strict)}})

(***************************************************************************)
(* TrialMetadata values the scoring calls are given                        *)
(***************************************************************************)
Gender(m, f) == [male |-> m, female |-> f]
Age(mean, std, lo, hi) == [mean |-> mean, std |-> std, min |-> lo, max |-> hi]
Eth5(w, b, a, h, o) == [white |-> w, black |-> b, asian |-> a, hispanic |-> h, other |-> o]

Meta(pc, age, gender, eth, ss, elig) ==
    [participant_count |-> pc, age_distribution |-> age, gender_distribution |-> gender,
     ethnicity_distribution |-> eth, sample_size |-> ss, eligibility_score |-> elig]

(* the same without the participant_count key *)
MetaNoCount(age, gender, eth, ss, elig) ==
    [age_distribution |-> age, gender_distribution |-> gender,
     ethnicity_distribution |-> eth, sample_size |-> ss, eligibility_score |-> elig]

FourEqual == [white |-> 250, black |-> 250, asian |-> 250, hispanic |-> 250]
SingleOnly == [white |-> 1000]

GenderDists ==
    {Gender(500, 500), Gender(540, 460), Gender(550, 450), Gender(560, 440),
     Gender(650, 350), Gender(950, 50), Gender(50, 950),
     Gender(520, 520), Gender(60000, 40000)}

EthnicityDists ==
    {FourEqual, Eth5(250, 250, 250, 250, 0), Eth5(250, 250, 250, 150, 100),
     Eth5(1000, 0, 0, 0, 0), SingleOnly, Eth5(500, 300, 200, 0, 0),
     Eth5(800, 200, 0, 0, 0), Eth5(850, 150, 0, 0, 0), EmptyDict,
     Eth5(400, 250, 250, 200, 150)}

AgeDists == {Age(53, 20, 18, 88), Age(44, 2, 40, 48), Age(50, 10, 30, 70), Age(50, 10, 30, 69)}

ScenarioA == {Meta(300, Age(53, 20, 18, 88), Gender(500, 500), e, 300, 900) :
                 e \in {FourEqual, Eth5(250, 250, 250, 250, 0)}}

ScenarioB ==
    {Meta(20, Age(44, 2, 40, 48), g, e, 20, 900) :
        g \in {Gender(950, 50), Gender(50, 950)}, e \in {SingleOnly, Eth5(1000, 0, 0, 0, 0)}}
    \cup
    {MetaNoCount(Age(44, 2, 40, 48), g, e, 20, 900) :
        g \in {Gender(950, 50), Gender(50, 950)}, e \in {SingleOnly, Eth5(1000, 0, 0, 0, 0)}}

ScenarioC532 == Meta(150, Age(50, 10, 30, 70), Gender(650, 350), Eth5(500, 300, 200, 0, 0), 150, 900)

ScenarioC ==
    {Meta(150, Age(50, 10, 30, 70), Gender(650, 350), e, 150, 900) :
        e \in {Eth5(500, 300, 200, 0, 0), Eth5(400, 300, 300, 0, 0), Eth5(600, 300, 100, 0, 0)}}

MetaSet ==
    {Meta(300, Age(53, 20, 18, 88), g, e, 300, 900) : g \in GenderDists, e \in EthnicityDists}
    \cup {Meta(300, a, g, e, 300, 900) :
             a \in AgeDists, g \in {Gender(500, 500), Gender(550, 450)},
             e \in {FourEqual, Eth5(800, 200, 0, 0, 0), Eth5(850, 150, 0, 0, 0)}}
    \cup ScenarioA \cup ScenarioB \cup ScenarioC

(* metadata of the calls that are repeated *)
RepeatMetaSet == ScenarioA \cup {ScenarioC532}

(***************************************************************************)
(* Scoring: a caller hands a TrialMetadata to detect_bias                  *)
(***************************************************************************)
NoPre == [status |-> "none"]
NoCalc == [op |-> "none"]

TrainedDetector == [_train_models(FreshDetector, 1) EXCEPT !.is_trained = TRUE]

DetectBias ==
    /\ req # <<>>
    /\ \E ev \in EligibilityVarianceDraws, os \in OutlierScores, bp \in BiasProbabilities :
          /\ call' = detect_bias(det, Head(req), ev, os, bp, chisquare_checks_sums)
          /\ (call.status = "ok" /\ call'.status = "ok" /\ call'.key = call.key)
                => (os = call.result.metrics.outlier_score
                    /\ bp = call.result.metrics.bias_probability)
    /\ req' = Tail(req)
    /\ UNCHANGED <<det, disk, runs, saved, chisquare_checks_sums, trial, response, pre, upload, calc, boot, ml_detector, heap, handlers>>

(* the caller calls detect_bias again with the metadata of the latest call *)
CallAgain ==
    /\ req = <<>>
    /\ call.status = "ok"
    /\ req' = <<call.meta>>
    /\ UNCHANGED <<det, disk, runs, saved, call, chisquare_checks_sums, trial, response, pre, upload, calc, boot, ml_detector, heap, handlers>>

(* no Trial document is stored; no endpoint has answered *)
NoTrial == [stored |-> FALSE]
NoResponse == [endpoint |-> "none", status_code |-> 0]

(* no request is being served, main.py has built no detector and the       *)
(* database holds no trial                                                 *)
Idle ==
    /\ ml_detector = 0
    /\ heap = <<>>
    /\ handlers = <<>>
    /\ trial = NoTrial
    /\ response = NoResponse

InitScoring(metas) ==
    /\ det = TrainedDetector
    /\ disk = _save_models(TrainedDetector)
    /\ runs = 1
    /\ saved = _train_models(FreshDetector, 1)
    /\ req \in {<<m>> : m \in metas}
    /\ call = NoCall
    /\ chisquare_checks_sums \in BOOLEAN
    /\ pre = NoPre
    /\ upload = <<>>
    /\ calc = NoCalc
    /\ boot = "trained"
    /\ Idle

Init == InitScoring(MetaSet)

Next == DetectBias

Spec == Init /\ [][Next]_vars

InitRepeat == InitScoring(RepeatMetaSet)

NextRepeat == DetectBias \/ CallAgain

SpecRepeat == InitRepeat /\ [][NextRepeat]_vars

(***************************************************************************)
(* MLBiasDetector.preprocess_trial_data                                    *)
(* kind tells what the parsers make of the uploaded bytes: "table"         *)
(* (pd.read_csv returns a frame with these columns and rows), "json"       *)
(* (read_csv raises, json.loads succeeds), "garbage" (both raise). Cells   *)
(* are the text of the file: "" is an empty cell; the age and              *)
(* eligibility_score cells are given as to_numeric reads them, NaN when it *)
(* coerces the text to NaN. Fractions are exact rationals, a standard      *)
(* deviation is carried as the variance under the root.                    *)
(***************************************************************************)
MaxRows == 2

Row(age, gender, ethnicity, eligibility_score) ==
    [age |-> age, gender |-> gender, ethnicity |-> ethnicity,
     eligibility_score |-> eligibility_score]

RowSet ==
    {Row(30, "Male", "White", 900), Row(70, "female", "african american", 800),
     Row(NaN, "M", "Latino", NaN), Row(50, " f ", "Asian", 900),
     Row(30, "Nonbinary", "Martian", 900), Row(70, "", "", NaN),
     Row(30, "1", "2", 800), Row(70, "Male", "Other", 900)}

ColumnSets ==
    {{"age", "gender", "ethnicity", "eligibility_score"}, {"gender", "ethnicity"}, {"age"}, {}}

Tables == UNION {[1..n -> RowSet] : n \in 0..MaxRows}

Contents ==
    {[kind |-> "table", columns |-> cs, rows |-> t] : cs \in ColumnSets, t \in Tables}
    \cup {[kind |-> "json", columns |-> {}, rows |-> <<>>],
          [kind |-> "garbage", columns |-> {}, rows |-> <<>>]}

Uploads ==
    {[filename |-> "trial.csv", content |-> c] : c \in Contents}
    \cup {[filename |-> "scan.png", content |-> c] : c \in {x \in Contents : x.kind = "garbage"}}

Column(rows, name) == [i \in 1..Len(rows) |-> rows[i][name]]

CountOf(cells, values) == Cardinality({i \in DOMAIN cells : cells[i] \in values})

(* Series.str.strip().str.title() of one cell *)
StripTitle(cell) ==
    CASE cell = "female" -> "Female"
      [] cell = " f " -> "F"
      [] cell = "african american" -> "African American"
      [] OTHER -> cell

NumericText == {"1", "2"}

(* read_csv gives a column the object dtype when a cell holds text that is *)
(* not a number, or when the frame has no rows; .str raises on the others  *)
IsStringColumn(cells) ==
    \/ cells = <<>>
    \/ \E i \in DOMAIN cells : cells[i] \notin NumericText \cup {""}

Titled(cells) == [i \in DOMAIN cells |-> StripTitle(cells[i])]

(* pd.to_numeric(..., errors='coerce').dropna() *)
DropNa(cells) == SelectSeq(cells, LAMBDA c : c # NaN)

RECURSIVE SumOf(_)
SumOf(s) == IF s = <<>> THEN 0 ELSE Head(s) + SumOf(Tail(s))

RECURSIVE MinOf(_)
MinOf(s) == IF Len(s) = 1 THEN Head(s) ELSE IF Head(s) < MinOf(Tail(s)) THEN Head(s) ELSE MinOf(Tail(s))

RECURSIVE MaxOf(_)
MaxOf(s) == IF Len(s) = 1 THEN Head(s) ELSE IF Head(s) > MaxOf(Tail(s)) THEN Head(s) ELSE MaxOf(Tail(s))

Sqrt(radicand) == [sqrt_of |-> radicand]

Mean(s) == Rat(SumOf(s), Len(s))

(* Series.std(): the sample standard deviation, NaN for a single value *)
Std(s) ==
    IF Len(s) < 2 THEN Sqrt(NaNR)
    ELSE Sqrt(Rat(Len(s) * SumOf([i \in DOMAIN s |-> s[i] * s[i]]) - SumOf(s) * SumOf(s),
                  Len(s) * (Len(s) - 1)))

(* the age block: statistics of the numeric ages, or the fixed defaults *)
CsvAge(content) ==
    Only({IF Len(ages) > 0
          THEN [mean |-> Mean(ages), std |-> Std(ages),
                min |-> R(MinOf(ages)), max |-> R(MaxOf(ages))]
          ELSE [mean |-> R(50), std |-> Sqrt(R(100)), min |-> R(18), max |-> R(80)] :
          ages \in {IF "age" \in content.columns
                    THEN DropNa(Column(content.rows, "age")) ELSE <<>>}})

GenderCount(cells, long, short) ==
    IF CountOf(cells, {long}) = 0 THEN CountOf(cells, {short}) ELSE CountOf(cells, {long})

GenderShares(male, female) ==
    IF RGt(RAdd(male, female), R(0))
    THEN [male |-> RDiv(male, RAdd(male, female)), female |-> RDiv(female, RAdd(male, female))]
    ELSE [male |-> male, female |-> female]

(* the gender block *)
CsvGender(content) ==
    Only({IF "gender" \in content.columns /\ Len(cells) - CountOf(cells, {""}) > 0
          THEN GenderShares(Rat(GenderCount(cells, "Male", "M"), Len(cells) - CountOf(cells, {""})),
                            Rat(GenderCount(cells, "Female", "F"), Len(cells) - CountOf(cells, {""})))
          ELSE [male |-> Rat(1, 2), female |-> Rat(1, 2)] :
          cells \in {Titled(Column(content.rows, "gender"))}})

eth_mapping(value) ==
    CASE value = "White" -> "white"
      [] value \in {"Black", "African American"} -> "black"
      [] value = "Asian" -> "asian"
      [] value \in {"Hispanic", "Latino", "Latina"} -> "hispanic"
      [] OTHER -> "other"

EthnicityShares(dist) ==
    Only({IF RGt(total, R(0)) THEN [k \in DOMAIN dist |-> RDiv(dist[k], total)] ELSE dist :
          total \in {RSum([i \in 1..Len(EthKeys) |-> dist[EthKeys[i]]])}})

(* the ethnicity block *)
CsvEthnicity(content) ==
    Only({IF "ethnicity" \in content.columns /\ Len(cells) - CountOf(cells, {""}) > 0
          THEN EthnicityShares(
                  [k \in {EthKeys[i] : i \in 1..Len(EthKeys)} |->
                      Rat(Cardinality({i \in DOMAIN cells :
                                          cells[i] # "" /\ eth_mapping(cells[i]) = k}),
                          Len(cells) - CountOf(cells, {""}))])
          ELSE [white |-> Rat(1, 4), black |-> Rat(1, 4), asian |-> Rat(1, 4),
                hispanic |-> Rat(15, 100), other |-> Rat(1, 10)] :
          cells \in {Titled(Column(content.rows, "ethnicity"))}})

(* the eligibility block: mean of the numeric scores, per mille, or 0.85 *)
CsvEligibility(content) ==
    Only({IF "eligibility_score" \in content.columns /\ Len(scores) > 0
          THEN RDiv(Mean(scores), R(1000))
          ELSE Rat(85, 100) :
          scores \in {DropNa(Column(content.rows, "eligibility_score"))}})

sha256(content) == [sha256_of |-> content]

(* the statistics the first try block returns *)
CsvMetadata(content, filename) ==
    [trial_id |-> [first16 |-> sha256(content)],
     filename |-> filename,
     participant_count |-> Len(content.rows),
     age_distribution |-> CsvAge(content),
     gender_distribution |-> CsvGender(content),
     ethnicity_distribution |-> CsvEthnicity(content),
     sample_size |-> Len(content.rows),
     eligibility_score |-> CsvEligibility(content),
     raw_data_hash |-> sha256(content)]

(* the first try block raises: read_csv fails, or .str is applied to a     *)
(* gender or ethnicity column that does not hold text                      *)
CsvRaises(content) ==
    \/ content.kind # "table"
    \/ "gender" \in content.columns /\ ~IsStringColumn(Column(content.rows, "gender"))
    \/ "ethnicity" \in content.columns /\ ~IsStringColumn(Column(content.rows, "ethnicity"))

(* what np.random hands the fallback: counts, years, and fractions per mille *)
RandomDraws ==
    {[participant_count |-> 100, mean |-> 45, std |-> 8, min |-> 18, max |-> 70,
      male |-> 480, female |-> 480, white |-> 250, black |-> 150, asian |-> 150,
      hispanic |-> 100, other |-> 50, sample_size |-> 100, eligibility_score |-> 750],
     [participant_count |-> 499, mean |-> 64, std |-> 14, min |-> 39, max |-> 89,
      male |-> 519, female |-> 519, white |-> 399, black |-> 249, asian |-> 249,
      hispanic |-> 199, other |-> 149, sample_size |-> 499, eligibility_score |-> 949],
     [participant_count |-> 300, mean |-> 55, std |-> 10, min |-> 25, max |-> 80,
      male |-> 519, female |-> 480, white |-> 300, black |-> 200, asian |-> 200,
      hispanic |-> 150, other |-> 100, sample_size |-> 120, eligibility_score |-> 850]}

(* the dictionary built in the innermost except block *)
FallbackMetadata(content, filename, draw) ==
    [trial_id |-> [first16 |-> sha256(content)],
     filename |-> filename,
     participant_count |-> draw.participant_count,
     age_distribution |-> [mean |-> R(draw.mean), std |-> Sqrt(R(draw.std * draw.std)),
                           min |-> R(draw.min), max |-> R(draw.max)],
     gender_distribution |-> [male |-> PerMille(draw.male), female |-> PerMille(draw.female)],
     ethnicity_distribution |->
        [k \in {EthKeys[i] : i \in 1..Len(EthKeys)} |-> PerMille(draw[k])],
     sample_size |-> draw.sample_size,
     eligibility_score |-> PerMille(draw.eligibility_score),
     raw_data_hash |-> sha256(content)]

(* log names the message printed on the way; json.loads succeeding only    *)
(* leads to the ValueError that the bare except next to it swallows        *)
preprocess_trial_data(content, filename, draw) ==
    IF ~CsvRaises(content)
    THEN [status |-> "ok", log |-> "Successfully parsed CSV", data |-> CsvMetadata(content, filename)]
    ELSE [status |-> "ok", log |-> "Both CSV and JSON parsing failed, using fallback data",
          data |-> FallbackMetadata(content, filename, draw)]

(***************************************************************************)
(* The score aggregator and the fairness metric calculator applied to      *)
(* inputs drawn from bounded sets                                          *)
(***************************************************************************)
ParityValues == {500, 600, 700, 800, 900, 1000}
ImpactValues == {R(0), Rat(1, 4), Rat(7, 10), R(1)}
CoverageValues == {R(0), Rat(4, 5), R(1)}
PValues == {R(0), Rat(5, 100), Rat(1, 2), R(1)}
ScaleFactors == {2, 10, 100}

ScaledDists ==
    {Eth5(500, 500, 0, 0, 0), Eth5(600, 300, 100, 0, 0), Eth5(999, 1, 0, 0, 0),
     Eth5(1000, 0, 0, 0, 0), Eth5(250, 250, 250, 150, 100), Eth5(0, 0, 0, 0, 0),
     FourEqual, SingleOnly, EmptyDict}

Scale(dist, k) == [key \in DOMAIN dist |-> dist[key] * k]

MetricsWith(dp, di, eo) ==
    [demographic_parity |-> dp, disparate_impact_ratio |-> di, equality_of_opportunity |-> eo]

TestsWith(p) ==
    [chi2_gender |-> R(0), p_value_gender |-> p, chi2_ethnicity |-> R(0), p_value_ethnicity |-> p]

ParityPairs == {ab \in ParityValues \X ParityValues : ab[1] <= ab[2]}

ScoreInputs ==
    {[op |-> "score", done |-> FALSE, a |-> ab[1], b |-> ab[2], di |-> di, eo |-> eo, p |-> p,
      outlier_score |-> os, bias_probability |-> bp, score_a |-> NaNR, score_b |-> NaNR] :
        ab \in ParityPairs, di \in ImpactValues,
        eo \in CoverageValues, p \in PValues, os \in OutlierScores, bp \in {0, 450, 1000}}

ImpactInputs ==
    {[op |-> "impact", done |-> FALSE, dist |-> dist, k |-> k, di |-> NaNR, di_scaled |-> NaNR] :
        dist \in ScaledDists, k \in ScaleFactors}

(* _calculate_overall_fairness_score for two demographic_parity values a <= b, *)
(* everything else equal                                                       *)
Aggregate ==
    /\ calc.op = "score"
    /\ ~calc.done
    /\ calc' = [calc EXCEPT
          !.done = TRUE,
          !.score_a = _calculate_overall_fairness_score(
              MetricsWith(PerMille(calc.a), calc.di, calc.eo), TestsWith(calc.p),
              calc.outlier_score, calc.bias_probability),
          !.score_b = _calculate_overall_fairness_score(
              MetricsWith(PerMille(calc.b), calc.di, calc.eo), TestsWith(calc.p),
              calc.outlier_score, calc.bias_probability)]
    /\ UNCHANGED <<det, disk, runs, saved, req, call, chisquare_checks_sums, trial, response, pre, upload, boot, ml_detector, heap, handlers>>

(* _calculate_fairness_metrics for an ethnicity distribution and for the same *)
(* distribution with every fraction multiplied by k                           *)
Impact ==
    /\ calc.op = "impact"
    /\ ~calc.done
    /\ calc' = [calc EXCEPT
          !.done = TRUE,
          !.di = _calculate_fairness_metrics(
              [ethnicity_distribution |-> calc.dist]).disparate_impact_ratio,
          !.di_scaled = _calculate_fairness_metrics(
              [ethnicity_distribution |-> Scale(calc.dist, calc.k)]).disparate_impact_ratio]
    /\ UNCHANGED <<det, disk, runs, saved, req, call, chisquare_checks_sums, trial, response, pre, upload, boot, ml_detector, heap, handlers>>

SampleSizes == {0, 1, 300}

TestInputs ==
    {[op |-> "tests", done |-> FALSE,
      meta |-> Meta(n, Age(53, 20, 18, 88), g, e, n, 900),
      tests |-> [raised |-> FALSE], reference |-> [raised |-> FALSE]] :
        n \in SampleSizes, g \in GenderDists, e \in EthnicityDists}

(* _run_statistical_tests for one metadata, and for the same metadata with *)
(* sample_size 300                                                         *)
RunTests ==
    /\ calc.op = "tests"
    /\ ~calc.done
    /\ calc' = [calc EXCEPT
          !.done = TRUE,
          !.tests = _run_statistical_tests(calc.meta, chisquare_checks_sums),
          !.reference = _run_statistical_tests(
              [calc.meta EXCEPT !.sample_size = 300, !.participant_count = 300],
              chisquare_checks_sums)]
    /\ UNCHANGED <<det, disk, runs, saved, req, call, chisquare_checks_sums, trial, response, pre, upload, boot, ml_detector, heap, handlers>>

TermPValues == {R(0), Rat(1, 100), Rat(3, 100), Rat(5, 100), Rat(1, 10), Rat(1, 2), R(1)}

TermInputs ==
    {[op |-> "term", done |-> FALSE, p |-> pq[1], q |-> pq[2], di |-> di,
      term_p |-> NaNR, term_q |-> NaNR, score_p |-> NaNR, score_q |-> NaNR] :
        pq \in {x \in TermPValues \X TermPValues : RLe(x[1], x[2])}, di \in ImpactValues}

(* _calculate_overall_fairness_score for two gender p-values p <= q,       *)
(* everything else equal, and the statistical_tests term of each           *)
ConfidenceTerm ==
    /\ calc.op = "term"
    /\ ~calc.done
    /\ calc' = [calc EXCEPT
          !.done = TRUE,
          !.term_p = StatisticalTerm(calc.p),
          !.term_q = StatisticalTerm(calc.q),
          !.score_p = _calculate_overall_fairness_score(
              MetricsWith(Rat(1, 2), calc.di, Rat(1, 2)), TestsWith(calc.p), 0, 450),
          !.score_q = _calculate_overall_fairness_score(
              MetricsWith(Rat(1, 2), calc.di, Rat(1, 2)), TestsWith(calc.q), 0, 450)]
    /\ UNCHANGED <<det, disk, runs, saved, req, call, chisquare_checks_sums, trial, response, pre, upload, boot, ml_detector, heap, handlers>>

(* gender fractions that are non-negative and need not add up to 1:        *)
(* fractions, percentages, a split that adds up to 1.5, to 1.04, to 0      *)
UnnormalizedGenders ==
    GenderDists \cup {Gender(1500, 0), Gender(0, 1500), Gender(0, 0), Gender(50000, 50000),
                      Gender(1000, 0), EmptyDict}

UnnormalizedEthnicities ==
    EthnicityDists \cup {Scale(dist, k) : dist \in {Eth5(600, 300, 100, 0, 0), FourEqual}, k \in {2, 100}}

(* metadata that lacks a distribution, or a key of one *)
SparseMetas ==
    {EmptyDict,
     [sample_size |-> 300, eligibility_score |-> 900],
     [age_distribution |-> Age(53, 20, 18, 88), ethnicity_distribution |-> FourEqual],
     [age_distribution |-> Age(53, 20, 18, 88), gender_distribution |-> Gender(700, 300)],
     [gender_distribution |-> Gender(700, 300), ethnicity_distribution |-> FourEqual],
     [age_distribution |-> Age(53, 20, 18, 88), gender_distribution |-> [male |-> 700],
      ethnicity_distribution |-> FourEqual],
     [age_distribution |-> Age(53, 20, 18, 88), gender_distribution |-> [female |-> 300],
      ethnicity_distribution |-> FourEqual],
     [age_distribution |-> [mean |-> 53, std |-> 20, min |-> 60],
      gender_distribution |-> Gender(700, 300), ethnicity_distribution |-> FourEqual],
     [age_distribution |-> [mean |-> 53, std |-> 20, max |-> 43],
      gender_distribution |-> Gender(700, 300), ethnicity_distribution |-> FourEqual],
     [age_distribution |-> [mean |-> 53, std |-> 20],
      gender_distribution |-> Gender(700, 300), ethnicity_distribution |-> FourEqual]}

MetricInputs ==
    {[op |-> "metrics", done |-> FALSE,
      meta |-> Meta(300, a, g, e, 300, 900), metrics |-> EmptyDict] :
        a \in AgeDists \cup {Age(50, 0, 60, 60), Age(50, 0, 70, 30)},
        g \in UnnormalizedGenders, e \in UnnormalizedEthnicities}
    \cup {[op |-> "metrics", done |-> FALSE, meta |-> m, metrics |-> EmptyDict] :
             m \in SparseMetas}

(* _calculate_fairness_metrics for one metadata *)
FairnessMetrics ==
    /\ calc.op = "metrics"
    /\ ~calc.done
    /\ calc' = [calc EXCEPT !.done = TRUE,
                             !.metrics = _calculate_fairness_metrics(calc.meta)]
    /\ UNCHANGED <<det, disk, runs, saved, req, call, chisquare_checks_sums, trial, response, pre, upload, boot, ml_detector, heap, handlers>>

InitCalc ==
    /\ det = TrainedDetector
    /\ disk = _save_models(TrainedDetector)
    /\ runs = 1
    /\ saved = _train_models(FreshDetector, 1)
    /\ req = <<>>
    /\ call = NoCall
    /\ chisquare_checks_sums \in BOOLEAN
    /\ pre = NoPre
    /\ upload = <<>>
    /\ calc \in ScoreInputs \cup ImpactInputs \cup TestInputs \cup TermInputs \cup MetricInputs
    /\ boot = "trained"
    /\ Idle

NextCalc == Aggregate \/ Impact \/ RunTests \/ ConfidenceTerm \/ FairnessMetrics

SpecCalc == InitCalc /\ [][NextCalc]_vars

(***************************************************************************)
(* Detector construction against the model directory                       *)
(***************************************************************************)
MaxRuns == 2

(* MLBiasDetector(): get_ml_detector at the first use of a process or      *)
(* after retrain_model reset the global                                    *)
Construct ==
    \E l \in {_load_models(FreshDetector, disk)} :
        IF l.ok
        THEN /\ det' = [l.det EXCEPT !.is_trained = TRUE]
             /\ boot' = "loaded"
             /\ UNCHANGED <<disk, runs, saved>>
        ELSE /\ runs < MaxRuns
             /\ \E trained \in {_train_models(l.det, runs + 1)} :
                   /\ disk' = _save_models(trained)
                   /\ saved' = trained
                   /\ det' = [trained EXCEPT !.is_trained = TRUE]
             /\ runs' = runs + 1
             /\ boot' = "trained"

Start ==
    /\ Construct
    /\ UNCHANGED <<req, call, chisquare_checks_sums, trial, response, pre, upload, calc, ml_detector, heap, handlers>>

(* a file of the model directory is deleted between two starts *)
RemoveFile ==
    /\ \E f \in FileNames :
          /\ disk[f].state # "missing"
          /\ disk' = [disk EXCEPT ![f] = Missing]
    /\ UNCHANGED <<det, runs, saved, req, call, chisquare_checks_sums, trial, response, pre, upload, calc, boot, ml_detector, heap, handlers>>

(* a file of the model directory becomes unreadable between two starts *)
DamageFile ==
    /\ \E f \in FileNames :
          /\ disk[f].state = "ok"
          /\ disk' = [disk EXCEPT ![f] = Corrupt]
    /\ UNCHANGED <<det, runs, saved, req, call, chisquare_checks_sums, trial, response, pre, upload, calc, boot, ml_detector, heap, handlers>>

(* attributes of the detector of ml_bias_detection_improved.py, which uses  *)
(* the same default directory "models" and three of the same file names    *)
ImprovedFeatureNames ==
    <<"age_mean", "age_std", "age_range", "gender_male", "gender_female",
      "ethnicity_white", "ethnicity_black", "ethnicity_asian",
      "sample_size_norm", "eligibility_score">>

ImprovedDetector ==
    [isolation_forest |-> Model("improved", 1), scaler |-> Model("improved", 1),
     feature_names |-> ImprovedFeatureNames]

(* _save_models of ml_bias_detection_improved.py: xgb_model.pkl, which the *)
(* production detector never reads, and three files that it does read     *)
ImprovedSave ==
    /\ disk' = [disk EXCEPT !["isolation_forest.pkl"] = Pickle(ImprovedDetector.isolation_forest),
                            !["scaler.pkl"] = Pickle(ImprovedDetector.scaler),
                            !["feature_names.json"] = Json(ImprovedDetector.feature_names)]
    /\ UNCHANGED <<det, runs, saved, req, call, chisquare_checks_sums, trial, response, pre, upload, calc, boot, ml_detector, heap, handlers>>

(* the directory when _save_models of detector d has completed its first k *)
(* writes over the directory dk                                            *)
SaveFirst(d, dk, k) ==
    [f \in FileNames |->
        IF \E i \in 1..k : LoadOrder[i] = f THEN _save_models(d)[f] ELSE dk[f]]

(* MLBiasDetector() that fails to load, trains, and whose process ends     *)
(* between two of the five writes of _save_models                          *)
StartInterrupted ==
    /\ runs < MaxRuns
    /\ \E l \in {_load_models(FreshDetector, disk)}, k \in 1..(Len(LoadOrder) - 1) :
          /\ ~l.ok
          /\ disk' = SaveFirst(_train_models(l.det, runs + 1), disk, k)
    /\ runs' = runs + 1
    /\ det' = FreshDetector
    /\ boot' = "interrupted"
    /\ UNCHANGED <<saved, req, call, chisquare_checks_sums, trial, response, pre, upload, calc, ml_detector, heap, handlers>>

InitPersist ==
    /\ det = TrainedDetector
    /\ disk = _save_models(TrainedDetector)
    /\ runs = 1
    /\ saved = _train_models(FreshDetector, 1)
    /\ req = <<>>
    /\ call = NoCall
    /\ chisquare_checks_sums = TRUE
    /\ pre = NoPre
    /\ upload = <<>>
    /\ calc = NoCalc
    /\ boot = "trained"
    /\ Idle

NextPersist == Start \/ RemoveFile \/ DamageFile \/ ImprovedSave \/ StartInterrupted

SpecPersist == InitPersist /\ [][NextPersist]_vars

(***************************************************************************)
(* Preprocessing of one upload                                             *)
(***************************************************************************)
Preprocess ==
    /\ pre.status = "none"
    /\ \E draw \in RandomDraws : pre' = preprocess_trial_data(upload.content, upload.filename, draw)
    /\ UNCHANGED <<det, disk, runs, saved, req, call, chisquare_checks_sums, trial, response, upload, calc, boot, ml_detector, heap, handlers>>

InitPre ==
    /\ det = TrainedDetector
    /\ disk = _save_models(TrainedDetector)
    /\ runs = 1
    /\ saved = _train_models(FreshDetector, 1)
    /\ req = <<>>
    /\ call = NoCall
    /\ chisquare_checks_sums = TRUE
    /\ pre = NoPre
    /\ upload \in Uploads
    /\ calc = NoCalc
    /\ boot = "trained"
    /\ Idle

NextPre == Preprocess

SpecPre == InitPre /\ [][NextPre]_vars

(***************************************************************************)
(* detect_bias called on detector objects in every condition their         *)
(* attributes can be in: each model absent (None), constructed but not     *)
(* fitted, or fitted; the name list as built in or as an older artifact    *)
(* with one name less left it in feature_names.json                        *)
(***************************************************************************)
ModelStates == {NoModel, Model("new", 0), Model("new", 1)}

DetectorStates ==
    {[is_trained |-> t, ensemble_model |-> e, isolation_forest |-> i, scaler |-> sc,
      feature_names |-> names, model_accuracy |-> AccuracyOf(1)] :
        t \in BOOLEAN, e \in ModelStates, i \in ModelStates, sc \in ModelStates,
        names \in {BuiltinFeatureNames,
                   SubSeq(BuiltinFeatureNames, 1, Len(BuiltinFeatureNames) - 1)}}

InitContract ==
    /\ det \in DetectorStates
    /\ disk = NoDisk
    /\ runs = 1
    /\ saved = FreshDetector
    /\ req \in {<<m>> : m \in ScenarioA \cup {ScenarioC532}}
    /\ call = NoCall
    /\ chisquare_checks_sums = TRUE
    /\ pre = NoPre
    /\ upload = <<>>
    /\ calc = NoCalc
    /\ boot = "trained"
    /\ Idle

NextContract == DetectBias

SpecContract == InitContract /\ [][NextContract]_vars

(***************************************************************************)
(* Scoring requests and the retrain trigger of main.py                     *)
(* run_ml_bias_check and upload_trial take the detector from               *)
(* get_ml_detector into a local name and call detect_bias on it.  Neither  *)
(* get_ml_detector nor detect_bias awaits, so the event loop runs each in  *)
(* one piece; the steps below split detect_bias at each read of an         *)
(* attribute, which only adds interleavings.                               *)
(***************************************************************************)
MaxDetectors == 2
ReqIds == {1, 2}

NoSeen ==
    [is_trained |-> FALSE, ensemble_model |-> NoModel, isolation_forest |-> NoModel,
     scaler |-> NoModel, feature_names |-> <<>>, model_accuracy |-> 0]

IdleHandler == [pc |-> "idle", meta |-> EmptyDict, ref |-> 0, seen |-> NoSeen, outcome |-> "none"]

(* mutant: the trigger empties the detector object that requests hold *)
ResetInPlace(g, h) ==
    [ml_detector |-> g, heap |-> IF g = 0 THEN h ELSE [h EXCEPT ![g] = FreshDetector]]

(* retrain_model: the global is set to None, no object is touched *)
Reset(g, h) == [ml_detector |-> 0, heap |-> h]

RetrainModel ==
    /\ ml_detector' = Reset(ml_detector, heap).ml_detector
    /\ heap' = Reset(ml_detector, heap).heap
    /\ UNCHANGED <<det, disk, runs, saved, req, call, chisquare_checks_sums, trial, response, pre, upload, calc,
                   boot, handlers>>

(* a request reads trial.metadata, then detector = get_ml_detector() *)
GetDetector(r) ==
    /\ handlers[r].pc = "idle"
    /\ IF ml_detector = 0
       THEN /\ Len(heap) < MaxDetectors
            /\ Construct
            /\ heap' = Append(heap, det')
            /\ ml_detector' = Len(heap) + 1
       ELSE UNCHANGED <<det, disk, runs, saved, boot, heap, ml_detector>>
    /\ \E m \in ScenarioA :
          handlers' = [handlers EXCEPT ![r].pc = "got", ![r].meta = m, ![r].ref = ml_detector']
    /\ UNCHANGED <<req, call, chisquare_checks_sums, trial, response, pre, upload, calc>>

(* the three checks that open detect_bias *)
CheckReady(r) ==
    /\ handlers[r].pc = "got"
    /\ \E self \in {heap[handlers[r].ref]} :
          handlers' = [handlers EXCEPT
              ![r].seen = [@ EXCEPT !.is_trained = self.is_trained,
                                    !.ensemble_model = self.ensemble_model,
                                    !.scaler = self.scaler],
              ![r].pc = IF ReadyCheck(self) = "" THEN "checked" ELSE "done",
              ![r].outcome = IF ReadyCheck(self) = "" THEN "none" ELSE "RuntimeError"]
    /\ UNCHANGED <<det, disk, runs, saved, req, call, chisquare_checks_sums, trial, response, pre, upload, calc,
                   boot, ml_detector, heap>>

(* the feature-count check and self.scaler.transform *)
Transform(r) ==
    /\ handlers[r].pc = "checked"
    /\ \E self \in {heap[handlers[r].ref]} :
          handlers' = [handlers EXCEPT
              ![r].seen = [@ EXCEPT !.feature_names = self.feature_names,
                                    !.scaler = self.scaler],
              ![r].pc = "scaled"]
    /\ UNCHANGED <<det, disk, runs, saved, req, call, chisquare_checks_sums, trial, response, pre, upload, calc,
                   boot, ml_detector, heap>>

(* the calls on self.isolation_forest and self.ensemble_model and the rest *)
(* of detect_bias, on the attributes as this request has read them         *)
Predict(r) ==
    /\ handlers[r].pc = "scaled"
    /\ \E self \in {heap[handlers[r].ref]}, os \in {-100, 0}, bp \in {0, 450} :
          \E view \in {[handlers[r].seen EXCEPT !.isolation_forest = self.isolation_forest,
                                               !.ensemble_model = self.ensemble_model,
                                               !.model_accuracy = self.model_accuracy]} :
             handlers' = [handlers EXCEPT
                 ![r].seen = view,
                 ![r].pc = "done",
                 ![r].outcome = detect_bias(view, handlers[r].meta, 10, os, bp,
                                            chisquare_checks_sums).status]
    /\ UNCHANGED <<det, disk, runs, saved, req, call, chisquare_checks_sums, trial, response, pre, upload, calc,
                   boot, ml_detector, heap>>

InitServe ==
    /\ det = TrainedDetector
    /\ disk = _save_models(TrainedDetector)
    /\ runs = 1
    /\ saved = _train_models(FreshDetector, 1)
    /\ req = <<>>
    /\ call = NoCall
    /\ chisquare_checks_sums = TRUE
    /\ pre = NoPre
    /\ upload = <<>>
    /\ calc = NoCalc
    /\ boot = "trained"
    /\ ml_detector = 0
    /\ heap = <<>>
    /\ handlers = [r \in ReqIds |-> IdleHandler]
    /\ trial = NoTrial
    /\ response = NoResponse

NextServe ==
    \/ RetrainModel
    \/ \E r \in ReqIds : GetDetector(r) \/ CheckReady(r) \/ Transform(r) \/ Predict(r)

SpecServe == InitServe /\ [][NextServe]_vars

(***************************************************************************)
(* Explanations: generate_explanations and detect_bias called on one       *)
(* detector object, of ml_bias_detection_production.py or of               *)
(* ml_bias_detection.py; boot = "legacy" marks an object of the latter     *)
(***************************************************************************)
(* _extract_features of ml_bias_detection.py: ten features, per mille      *)
LegacyExtractFeatures(trial_metadata) ==
    LET age_dist == Get(trial_metadata, "age_distribution", EmptyDict)
        gender_dist == Get(trial_metadata, "gender_distribution", EmptyDict)
        ethnicity_dist == Get(trial_metadata, "ethnicity_distribution", EmptyDict)
    IN  <<R(Get(age_dist, "mean", 50)),
          R(Get(age_dist, "std", 10)),
          R(Get(age_dist, "max", 80) - Get(age_dist, "min", 18)),
          PerMille(Get(gender_dist, "male", 500)),
          PerMille(Get(gender_dist, "female", 500)),
          PerMille(Get(ethnicity_dist, "white", 500)),
          PerMille(Get(ethnicity_dist, "black", 200)),
          PerMille(Get(ethnicity_dist, "asian", 100)),
          Rat(Get(trial_metadata, "sample_size", 100), 1000),
          PerMille(Get(trial_metadata, "eligibility_score", 800))>>

(* attributes after __init__ of ml_bias_detection.py, which always trains  *)
LegacyDetector ==
    [isolation_forest |-> Model("legacy", 1),
     xgb_model |-> Model("legacy", 1),
     scaler |-> Model("legacy", 1),
     feature_names |-> ImprovedFeatureNames]

(* scaler.fit_transform(features): the scaler now holds the statistics of  *)
(* the rows it was handed                                                  *)
FitTransform(features) == [origin |-> "request", fit |-> 1, rows |-> <<features>>]

ConstructLegacy ==
    /\ det' = LegacyDetector
    /\ boot' = "legacy"
    /\ UNCHANGED <<disk, runs, saved, req, call, chisquare_checks_sums, trial, response, pre, upload, calc, ml_detector, heap, handlers>>

(* detect_bias of the object at hand *)
Score ==
    /\ \E m \in ScenarioA :
          IF boot = "legacy"
          THEN call' = [status |-> "ok", meta |-> m,
                        features |-> LegacyExtractFeatures(m),
                        key |-> <<det.scaler, det.isolation_forest, det.xgb_model>>]
          ELSE \E os \in OutlierScores, bp \in {0, 450, 1000} :
                  call' = detect_bias(det, m, 10, os, bp, chisquare_checks_sums)
    /\ UNCHANGED <<det, disk, runs, saved, req, chisquare_checks_sums, trial, response, pre, upload, calc, boot, ml_detector, heap, handlers>>

(* generate_explanations of the object at hand *)
GenerateExplanations ==
    \E m \in ScenarioA \cup ScenarioB :
        IF boot = "legacy"
        THEN \E features \in {LegacyExtractFeatures(m)} :
                /\ det' = [det EXCEPT !.scaler = FitTransform(features)]
                /\ call' = [status |-> "explained", meta |-> m, features |-> features,
                            key |-> <<det'.scaler, det.xgb_model>>,
                            feature_importance |-> det.feature_names]
                /\ UNCHANGED <<disk, runs, saved, req, chisquare_checks_sums, trial, response, pre, upload, calc, boot, ml_detector, heap, handlers>>
        ELSE \E features \in {_extract_features(m, 10)} :
                /\ call' = IF Fitted(det.scaler) /\ det.ensemble_model # NoModel
                           THEN [status |-> "explained", meta |-> m, features |-> features,
                                 key |-> <<det.scaler, det.ensemble_model>>,
                                 feature_importance |-> det.feature_names]
                           ELSE [status |-> "raised", meta |-> m, features |-> features]
                /\ UNCHANGED <<det, disk, runs, saved, req, chisquare_checks_sums, trial, response, pre, upload, calc, boot, ml_detector, heap, handlers>>

InitExplain == InitPersist

NextExplain == Start \/ ConstructLegacy \/ Score \/ GenerateExplanations

SpecExplain == InitExplain /\ [][NextExplain]_vars

(***************************************************************************)
(* Ledger: uploadTrial, runMLBiasCheck and blockchain/write of main.py on  *)
(* one Trial document, called by a user whose role passes the access check *)
(***************************************************************************)
MaxWrites == 2

LedgerMetas ==
    ScenarioA \cup {ScenarioC532, Meta(20, Age(44, 2, 40, 48), Gender(950, 50), SingleOnly, 20, 900)}

Respond(endpoint, status_code) == [endpoint |-> endpoint, status_code |-> status_code]

(* the assignments of a bias_result to the document, followed by save() *)
WithVerdict(doc, result) ==
    [doc EXCEPT !.ml_status = result.decision, !.ml_score = result.fairness_score]

(* a detect_bias call of an endpoint on the detector det: the models give  *)
(* the same outputs as in the latest call when they are handed the same    *)
(* vector                                                                  *)
BiasResults(metadata) ==
    {r \in {detect_bias(det, metadata, ev, os, bp, chisquare_checks_sums) :
                ev \in EligibilityVarianceDraws, os \in {-100, 0}, bp \in {0, 450, 1000}} :
        (call.status = "ok" /\ r.status = "ok" /\ r.key = call.key)
            => (r.result.metrics.outlier_score = call.result.metrics.outlier_score
                /\ r.result.metrics.bias_probability = call.result.metrics.bias_probability)}

(* upload_trial: the document is inserted, then detect_bias runs; a        *)
(* failure of detect_bias is logged and the upload still answers 201       *)
UploadTrial ==
    /\ ~trial.stored
    /\ \E m \in LedgerMetas :
          \E inserted \in {[stored |-> TRUE, metadata |-> m, ml_status |-> None, ml_score |-> NaNR,
                            blockchain_status |-> None, blockchain_tx_hash |-> 0]} :
             \E r \in BiasResults(m) :
                /\ call' = r
                /\ trial' = IF r.status = "ok" THEN WithVerdict(inserted, r.result) ELSE inserted
    /\ response' = Respond("uploadTrial", 201)
    /\ UNCHANGED <<det, disk, runs, saved, req, chisquare_checks_sums, pre, upload, calc, boot, ml_detector, heap, handlers>>

(* run_ml_bias_check *)
RunMLBiasCheck ==
    IF ~trial.stored
    THEN /\ response' = Respond("runMLBiasCheck", 404)
         /\ UNCHANGED <<det, disk, runs, saved, req, call, chisquare_checks_sums, trial, pre, upload, calc, boot, ml_detector, heap, handlers>>
    ELSE /\ \E r \in BiasResults(trial.metadata) :
               /\ call' = r
               /\ trial' = IF r.status = "ok" THEN WithVerdict(trial, r.result) ELSE trial
               /\ response' = Respond("runMLBiasCheck",
                                      CASE r.status = "ok" -> 200
                                        [] r.status = "RuntimeError" -> 503
                                        [] OTHER -> 400)
         /\ UNCHANGED <<det, disk, runs, saved, req, chisquare_checks_sums, pre, upload, calc, boot, ml_detector, heap, handlers>>

(* trial.ml_status in ["ACCEPT", "REVIEW"] *)
WriteAllowed(doc) == doc.ml_status \in {"ACCEPT", "REVIEW"}

(* write_to_blockchain; the transaction hash is modelled by the number of  *)
(* the write                                                               *)
WriteToBlockchain ==
    /\ IF ~trial.stored
       THEN response' = Respond("blockchain/write", 404) /\ UNCHANGED trial
       ELSE IF ~WriteAllowed(trial)
       THEN response' = Respond("blockchain/write", 400) /\ UNCHANGED trial
       ELSE /\ trial.blockchain_tx_hash < MaxWrites
            /\ trial' = [trial EXCEPT !.blockchain_tx_hash = @ + 1,
                                      !.blockchain_status = "written"]
            /\ response' = Respond("blockchain/write", 200)
    /\ UNCHANGED <<det, disk, runs, saved, req, call, chisquare_checks_sums, pre, upload, calc, boot, ml_detector, heap, handlers>>

InitLedger == InitPersist

NextLedger == UploadTrial \/ RunMLBiasCheck \/ WriteToBlockchain

SpecLedger == InitLedger /\ [][NextLedger]_vars

(***************************************************************************)
(* Properties of the scoring calls                                         *)
(***************************************************************************)
Scored == call.status = "ok"
Has(seq, msg) == \E i \in DOMAIN seq : seq[i] = msg

(* the "strong demographic balance" condition of the first policy tier *)
StrongBalance(r) ==
    /\ RGe(r.metrics.fairness_metrics.demographic_parity, Rat(90, 100))
    /\ RGe(r.metrics.fairness_metrics.equality_of_opportunity, Rat(80, 100))
    /\ RGe(r.metrics.fairness_metrics.disparate_impact_ratio, Rat(25, 100))
    /\ ~r.metrics.is_outlier
    /\ r.metrics.bias_probability < 450

(* C1: two detect_bias calls with identical metadata on the same unchanged *)
(* detector return identical verdicts and extract identical feature        *)
(* vectors.  Stated on the step that answers a repeated call.              *)
C1_Determinism ==
    [][(Scored /\ req # <<>> /\ call'.status = "ok" /\ call'.meta = call.meta)
          => (call'.result = call.result /\ call'.features = call.features)]_vars

(* C2: under strong demographic balance the decision is ACCEPT when        *)
(* fairness_score >= 0.60 and REVIEW otherwise.                            *)
C2_FirstTier ==
    (Scored /\ StrongBalance(call.result))
        => call.result.decision =
              (IF RGe(call.result.fairness_score, Rat(60, 100)) THEN "ACCEPT" ELSE "REVIEW")

C2_Witness ==
    /\ Scored
    /\ StrongBalance(call.result)
    /\ RLt(call.result.metrics.fairness_metrics.demographic_parity, Rat(92, 100))
    /\ RLt(call.result.fairness_score, Rat(70, 100))
    /\ call.result.decision = "ACCEPT"

C5_ScoreInUnitInterval ==
    Scored => (RGe(call.result.fairness_score, R(0)) /\ RLe(call.result.fairness_score, R(1)))

(* a verdict whose weighted sum was negative before the final clamp *)
C5_Witness ==
    /\ Scored
    /\ RLt(call.result.metrics.fairness_metrics.demographic_parity, R(-3))
    /\ call.result.fairness_score = R(0)

(* C9 as claimed: Scenario A gets ACCEPT and fairness_score >= 0.80        *)
(* whatever the outlier detector and the classifier return.                *)
C9_ScenarioA ==
    (Scored /\ call.meta \in ScenarioA)
        => (call.result.decision = "ACCEPT" /\ RGe(call.result.fairness_score, Rat(80, 100)))

(* C9 amended: Scenario A gets fairness_score >= 0.80 and the decision     *)
(* ACCEPT, except that the decision is REVIEW when is_outlier is true and  *)
(* bias_probability >= 0.40.                                               *)
C9_ScenarioAAmended ==
    (Scored /\ call.meta \in ScenarioA)
        => /\ RGe(call.result.fairness_score, Rat(80, 100))
           /\ call.result.decision =
                 (IF call.result.metrics.is_outlier /\ call.result.metrics.bias_probability >= 400
                  THEN "REVIEW" ELSE "ACCEPT")

C9_Witness ==
    /\ Scored
    /\ call.meta \in ScenarioA
    /\ ~call.result.metrics.is_outlier
    /\ call.result.metrics.bias_probability >= 450
    /\ call.result.decision = "ACCEPT"

(* C10: Scenario B gets REJECT and a rejection_summary that holds the      *)
(* gender-imbalance reason and the insufficient-sample-size reason,        *)
(* whatever the outlier detector and the classifier return.                *)
C10_ScenarioB ==
    (Scored /\ call.meta \in ScenarioB)
        => /\ call.result.decision = "REJECT"
           /\ Has(call.result.rejection_summary, "Gender imbalance")
           /\ Has(call.result.rejection_summary, "Insufficient sample size")

C10_Witness ==
    /\ Scored
    /\ call.meta \in ScenarioB
    /\ call.result.decision = "REJECT"
    /\ ~call.result.metrics.is_outlier
    /\ call.result.metrics.bias_probability = 0

(* C11 as claimed: Scenario C (male 0.65, three ethnicities present, age   *)
(* span 40, sample_size 150) gets REVIEW whatever the outlier detector and *)
(* the classifier return.                                                  *)
C11_ScenarioC ==
    (Scored /\ call.meta \in ScenarioC) => call.result.decision = "REVIEW"

(* C11 amended: Scenario C has demographic_parity 0.70 and                 *)
(* equality_of_opportunity 0.80 and a fairness_score below 0.85.  With the *)
(* ethnicity fractions 0.5 / 0.3 / 0.2 the decision is ACCEPT when the     *)
(* vector is no outlier and bias_probability <= 0.20, REJECT when          *)
(* outlier_score <= -0.1 and bias_probability > 0.20, and REVIEW in every  *)
(* other case.                                                             *)
C11_ScenarioCAmended ==
    (Scored /\ call.meta \in ScenarioC)
        => /\ call.result.metrics.fairness_metrics.demographic_parity = Rat(70, 100)
           /\ call.result.metrics.fairness_metrics.equality_of_opportunity = Rat(80, 100)
           /\ RLt(call.result.fairness_score, Rat(85, 100))
           /\ call.meta = ScenarioC532 =>
                 call.result.decision =
                    (IF ~call.result.metrics.is_outlier /\ call.result.metrics.bias_probability <= 200
                     THEN "ACCEPT"
                     ELSE IF call.result.metrics.outlier_score <= -100
                             /\ call.result.metrics.bias_probability > 200
                     THEN "REJECT"
                     ELSE "REVIEW")

C11_Witness ==
    /\ Scored
    /\ call.meta = ScenarioC532
    /\ ~call.result.metrics.is_outlier
    /\ call.result.metrics.bias_probability = 200
    /\ call.result.decision = "ACCEPT"

(***************************************************************************)
(* Properties of the score aggregator and the metric calculator            *)
(***************************************************************************)

(* C6: for demographic_parity a <= b in [0.5, 1.0] and all other inputs    *)
(* equal, the fairness_score for b is not lower than the one for a.        *)
C6_ParityMonotone ==
    (calc.op = "score" /\ calc.done /\ calc.a <= calc.b) => RLe(calc.score_a, calc.score_b)

C6_Witness ==
    /\ calc.op = "score"
    /\ calc.done
    /\ calc.a < calc.b
    /\ RLt(calc.score_a, calc.score_b)

(* C7: multiplying every ethnicity fraction by a positive constant k       *)
(* leaves disparate_impact_ratio unchanged.                                *)
C7_ScaleInvariance ==
    (calc.op = "impact" /\ calc.done) => calc.di_scaled = calc.di

(* the fractions of both splits add up to what chisquare expects, 1 *)
SumsAgree(meta) ==
    /\ meta.gender_distribution.male + meta.gender_distribution.female = 1000
    /\ Values(meta.ethnicity_distribution) # <<>>
          => RSum(Values(meta.ethnicity_distribution)) = R(1)

FourFields(tests) ==
    {"chi2_gender", "p_value_gender", "chi2_ethnicity", "p_value_ethnicity"} \subseteq DOMAIN tests

ProbeVectors == {<<R(0)>>, <<R(1)>>}

FreshlyTrained(r) == _train_models(FreshDetector, r)

(* C15: a start that could not load everything serves, and saves again,    *)
(* only freshly trained components and the built-in feature names; nothing *)
(* read from the directory before the failure is kept.                     *)
C15_LoadOrRetrain ==
    boot = "trained" =>
        /\ det = [FreshlyTrained(runs) EXCEPT !.is_trained = TRUE]
        /\ saved = FreshlyTrained(runs)
        /\ disk = _save_models(saved) => disk = _save_models(FreshlyTrained(runs))

(* C16: with _save_models interrupted between two writes over an older    *)
(* set, a start that loads holds components of one training run only       *)
(* (stated for the files this detector class wrote).                       *)
C16_AtomicSave ==
    (/\ boot = "loaded"
     /\ det.ensemble_model.origin = "new"
     /\ det.isolation_forest.origin = "new"
     /\ det.scaler.origin = "new")
        => /\ det.isolation_forest.fit = det.ensemble_model.fit
           /\ det.scaler.fit = det.ensemble_model.fit
           /\ det.model_accuracy = AccuracyOf(det.ensemble_model.fit)

(***************************************************************************)
(* Properties of preprocessing                                             *)
(***************************************************************************)

(* C4: when the bytes parse neither as CSV nor as JSON, preprocess ends    *)
(* with an error and returns no metadata.                                  *)
C4_UnparsableRaises ==
    (pre.status # "none" /\ upload.content.kind = "garbage") => pre.status = "ValueError"

(***************************************************************************)
(* Properties of the guards of detect_bias                                 *)
(***************************************************************************)
Called == call.status # "none"

NotReady(d) == ~d.is_trained \/ d.ensemble_model = NoModel \/ d.scaler = NoModel

(* C13: on a detector that is not trained, or has no classifier or no      *)
(* scaler, detect_bias fails with the model-not-ready error and gives no   *)
(* verdict; a verdict is given only by a detector that is trained and      *)
(* holds a fitted scaler, outlier model and classifier.                    *)
C13_NotReadyRaises ==
    Called =>
        /\ NotReady(det) => (call.status = "RuntimeError" /\ "result" \notin DOMAIN call)
        /\ call.status = "ok" =>
              /\ det.is_trained
              /\ Fitted(det.scaler)
              /\ Fitted(det.isolation_forest)
              /\ Fitted(det.ensemble_model)

C13_Witness ==
    /\ Called
    /\ det.is_trained
    /\ det.ensemble_model = NoModel
    /\ Fitted(det.scaler)
    /\ call.status = "RuntimeError"

(* C14: when the extracted vector and the feature-name list differ in      *)
(* length, detect_bias ends with the feature-mismatch error before any of  *)
(* the scaler, the outlier model and the classifier is called, and gives   *)
(* no verdict.                                                             *)
C14_FeatureCountCheck ==
    (Called /\ "features" \in DOMAIN call /\ Len(call.features) # Len(det.feature_names))
        => /\ call.status = "ValueError"
           /\ call.error = "Feature extraction failed: Feature mismatch"
           /\ call.invoked = {}
           /\ "result" \notin DOMAIN call

C14_Witness ==
    /\ Called
    /\ "features" \in DOMAIN call
    /\ Len(call.features) = 18
    /\ Len(det.feature_names) = 17
    /\ Fitted(det.scaler)
    /\ call.status = "ValueError"

(***************************************************************************)
(* Properties of scoring under the retrain trigger                         *)
(***************************************************************************)
Complete(d) ==
    /\ d.is_trained
    /\ Fitted(d.scaler)
    /\ Fitted(d.isolation_forest)
    /\ Fitted(d.ensemble_model)
    /\ d.scaler.fit = d.ensemble_model.fit
    /\ d.isolation_forest.fit = d.ensemble_model.fit

(* C17: whatever the interleaving with retrain_model, a scoring request    *)
(* holds a detector (never None), every attribute it reads is the one the  *)
(* detector had when the request took it, and the call ends with a verdict *)
(* from one complete detector.                                             *)
C17_ScoringSeesOneDetector ==
    \A r \in ReqIds :
        /\ handlers[r].pc # "idle" => handlers[r].ref \in 1..Len(heap)
        /\ handlers[r].pc = "done" =>
              /\ handlers[r].outcome = "ok"
              /\ Complete(handlers[r].seen)
              /\ handlers[r].seen = heap[handlers[r].ref]

C17_Witness ==
    /\ handlers[1].pc = "done"
    /\ handlers[2].pc = "done"
    /\ handlers[1].ref # handlers[2].ref
    /\ ml_detector = 0

(***************************************************************************)
(* C18: a detect_bias or generate_explanations call leaves the scaler, the *)
(* outlier model, the classifier, the feature-name list and the accuracy   *)
(* of the detector as they were; only a construction changes them          *)
(***************************************************************************)
Artifacts(d) == [k \in DOMAIN d \ {"is_trained"} |-> d[k]]

C18_ArtifactsImmutable ==
    [][call' # call => Artifacts(det') = Artifacts(det)]_vars

(***************************************************************************)
(* C19: the statistical_tests term is 1 (full credit) for a gender p-value *)
(* above 0.05 and strictly between 0 and 1 for p <= 0.05, and it does not  *)
(* decrease when the p-value increases                                     *)
(***************************************************************************)
C19_ConfidenceTerm ==
    (calc.op = "term" /\ calc.done) =>
        /\ RGt(calc.p, Rat(5, 100)) => calc.term_p = R(1)
        /\ RLe(calc.p, Rat(5, 100)) => (RGt(calc.term_p, R(0)) /\ RLt(calc.term_p, R(1)))
        /\ RLe(calc.term_p, calc.term_q)
        /\ RLe(calc.score_p, calc.score_q)

(***************************************************************************)
(* C20: for non-negative distribution fractions, normalized or not, each   *)
(* of demographic_parity, disparate_impact_ratio and equality_of_opportunity *)
(* returned by _calculate_fairness_metrics lies in [0, 1]                  *)
(***************************************************************************)
InUnit(x) == RGe(x, R(0)) /\ RLe(x, R(1))

C20_MetricsInUnitInterval ==
    (calc.op = "metrics" /\ calc.done) =>
        /\ InUnit(calc.metrics.demographic_parity)
        /\ InUnit(calc.metrics.disparate_impact_ratio)
        /\ InUnit(calc.metrics.equality_of_opportunity)

(***************************************************************************)
(* C21: when fewer than two ethnicity categories have a fraction above the *)
(* epsilon 0.001, disparate_impact_ratio is a mid-value, strictly between  *)
(* 0 and 1, and never zero                                                 *)
(***************************************************************************)
MassCategories(meta) ==
    Len(Filter(Values(Get(meta, "ethnicity_distribution", EmptyDict)), PerMille(1)))

C21_FewCategoriesNeutral ==
    (calc.op = "metrics" /\ calc.done /\ MassCategories(calc.meta) < 2) =>
        /\ RGt(calc.metrics.disparate_impact_ratio, R(0))
        /\ RLt(calc.metrics.disparate_impact_ratio, R(1))

(***************************************************************************)
(* C22: for metadata that lacks a distribution or one of its keys,         *)
(* _calculate_fairness_metrics returns, and the metric derived from what   *)
(* is missing is the neutral 0.5                                           *)
(***************************************************************************)
Lacks(meta, field, keys) ==
    \/ field \notin DOMAIN meta
    \/ \E k \in keys : k \notin DOMAIN meta[field]

C22_MissingFieldNeutral ==
    (calc.op = "metrics" /\ calc.done) =>
        /\ DOMAIN calc.metrics =
              {"demographic_parity", "disparate_impact_ratio", "equality_of_opportunity"}
        /\ Lacks(calc.meta, "gender_distribution", {"male", "female"})
              => calc.metrics.demographic_parity = Rat(1, 2)
        /\ Lacks(calc.meta, "ethnicity_distribution", {})
              => calc.metrics.disparate_impact_ratio = Rat(1, 2)
        /\ Lacks(calc.meta, "age_distribution", {"min", "max"})
              => calc.metrics.equality_of_opportunity = Rat(1, 2)

(***************************************************************************)
(* C23: when the chi-square computation of the gender or of the ethnicity  *)
(* split fails (it raises, or its p-value is nan), detect_bias returns a   *)
(* verdict and the p-value of that split in statistical_tests is 0.5       *)
(***************************************************************************)
GenderTest(meta, strict) ==
    chisquare(<<PerMille(Get(Get(meta, "gender_distribution", EmptyDict), "male", 500)),
                PerMille(Get(Get(meta, "gender_distribution", EmptyDict), "female", 500))>>,
              <<Rat(1, 2), Rat(1, 2)>>, strict)

EthnicityTest(meta, strict) ==
    LET ethnicity_values == Values(Get(meta, "ethnicity_distribution", EmptyDict))
    IN  IF Len(ethnicity_values) > 0
        THEN chisquare(ethnicity_values,
                       [i \in 1..Len(ethnicity_values) |-> Rat(1, Len(ethnicity_values))], strict)
        ELSE [raised |-> FALSE, chi2 |-> R(0), p |-> R(1)]

Failed(t) == t.raised \/ IsNaN(t.p)

C23_ChiSquareFailureDefaults ==
    call.status # "none" =>
        /\ Failed(GenderTest(call.meta, chisquare_checks_sums))
              => (Scored /\ call.result.metrics.statistical_tests.p_value_gender = Rat(1, 2))
        /\ Failed(EthnicityTest(call.meta, chisquare_checks_sums))
              => (Scored /\ call.result.metrics.statistical_tests.p_value_ethnicity = Rat(1, 2))

(***************************************************************************)
(* C29: when _run_statistical_tests raises inside detect_bias, the verdict *)
(* carries the default statistical tests and the fairness metrics computed *)
(* from the metadata                                                       *)
(***************************************************************************)
C29_FailureKeepsMetrics ==
    (Scored /\ _run_statistical_tests(call.meta, chisquare_checks_sums).raised) =>
        /\ call.result.metrics.statistical_tests = DefaultStatisticalTests
        /\ call.result.metrics.fairness_metrics = _calculate_fairness_metrics(call.meta)

(***************************************************************************)
(* C24: the last three entries of the feature vector (demographic_parity,  *)
(* disparate_impact, equality_opportunity) equal the three values of       *)
(* fairness_metrics in the verdict of the same call                        *)
(***************************************************************************)
C24_FeaturesCarryMetrics ==
    Scored =>
        /\ call.features[16] = call.result.metrics.fairness_metrics.demographic_parity
        /\ call.features[17] = call.result.metrics.fairness_metrics.disparate_impact_ratio
        /\ call.features[18] = call.result.metrics.fairness_metrics.equality_of_opportunity

(***************************************************************************)
(* C25: the get_ml_detector call that follows retrain_model runs a         *)
(* training: the detector it builds is newly trained and is not the set of *)
(* artifacts that was in the model directory before                        *)
(***************************************************************************)
AfterRetrain == ml_detector = 0 /\ heap # <<>>

C25_RetrainTrainsAfresh ==
    [][(AfterRetrain /\ ml_detector' # 0) =>
          /\ runs' = runs + 1
          /\ boot' = "trained"
          /\ \/ ~_load_models(FreshDetector, disk).ok
             \/ Artifacts(heap'[ml_detector']) # Artifacts(_load_models(FreshDetector, disk).det)]_vars

C27_OutlierCreditFollowsFlag ==
    Scored =>
        OutlierTerm(call.result.metrics.outlier_score) =
            (IF call.result.metrics.is_outlier THEN Rat(1, 2) ELSE R(1))

(***************************************************************************)
(* C28: a trial whose blockchain_status is "written" has ml_status ACCEPT  *)
(* or REVIEW, and a write request for a trial whose ml_status is REJECT or *)
(* unset is answered with an error and leaves blockchain_tx_hash and       *)
(* blockchain_status as they were                                          *)
(***************************************************************************)
Written(doc) == doc.stored /\ doc.blockchain_status = "written"

C28_LedgerGate ==
    [][/\ Written(trial') => trial'.ml_status \in {"ACCEPT", "REVIEW"}
       /\ (response'.endpoint = "blockchain/write" /\ trial.stored
              /\ trial.ml_status \notin {"ACCEPT", "REVIEW"})
            => /\ response'.status_code = 400
               /\ trial'.blockchain_tx_hash = trial.blockchain_tx_hash
               /\ trial'.blockchain_status = trial.blockchain_status]_vars

(***************************************************************************)
(* C30: for a file that is parsed as CSV and has a gender and an ethnicity *)
(* column and at least one row, the metadata has non-negative gender       *)
(* fractions with male + female = 1 and non-negative ethnicity fractions   *)
(* that add up to 1                                                        *)
(***************************************************************************)
ParsedWithDemographics ==
    /\ pre.status = "ok"
    /\ pre.log = "Successfully parsed CSV"
    /\ {"gender", "ethnicity"} \subseteq upload.content.columns
    /\ Len(upload.content.rows) >= 1

C30_FractionsNormalized ==
    ParsedWithDemographics =>
        /\ RGe(pre.data.gender_distribution.male, R(0))
        /\ RGe(pre.data.gender_distribution.female, R(0))
        /\ RAdd(pre.data.gender_distribution.male, pre.data.gender_distribution.female) = R(1)
        /\ \A k \in DOMAIN pre.data.ethnicity_distribution :
              RGe(pre.data.ethnicity_distribution[k], R(0))
        /\ RSum([i \in 1..Len(EthKeys) |-> pre.data.ethnicity_distribution[EthKeys[i]]]) = R(1)

====
